---- MODULE Spec2Model ----
(***************************************************************************)
(* Model of the on-device pipeline of src/esp32/esp32_main.py: the MAX30102 *)
(* driver (FIFO reader, decimated windows, heart-rate and SpO2 estimators), *)
(* VitalBatchSender (add_point, flush_if_due, _send_buffer), CycleCounter  *)
(* and the streaming loop that feeds them.                                 *)
(*                                                                         *)
(* Time is counted in abstract ticks.  clock is the time really elapsed;   *)
(* time.ticks_ms() is clock modulo the tick period and time.ticks_diff()   *)
(* is MicroPython's wrapping signed difference.  Sizes and intervals are   *)
(* drawn from small ranges in Init, so that every relation between         *)
(* batch_size, max_buffer_points and flush_interval_ms is explored.        *)
(***************************************************************************)
EXTENDS Integers, Sequences, FiniteSets, TLC

VARIABLES
    buffer,             \* VitalBatchSender.buffer
    last_send_ms,       \* VitalBatchSender.last_send_ms (a ticks_ms value)
    batch_size,         \* VitalBatchSender.batch_size
    max_buffer_points,  \* VitalBatchSender.max_buffer_points
    flush_interval_ms,  \* VitalBatchSender.flush_interval_ms
    value,              \* CycleCounter.value
    max_value,          \* CycleCounter.max_value
    last_send,          \* the streaming loop's sample timer (a ticks_ms value)
    clock,              \* time really elapsed, not wrapped
    call,               \* observation: what the last call did
    history,            \* observation: every point handed to add_point, in order
    cleared_at,         \* observation: Len(history) when the buffer was last cleared
    flush_failed,       \* observation: a send has failed since the buffer was last cleared
    returned,           \* observation: the values returned by CycleCounter.next, in order
    last_send_clock     \* observation: the clock value at which last_send_ms was taken

uplinkVars == <<buffer, last_send_ms, batch_size, max_buffer_points, flush_interval_ms,
          value, max_value, last_send, clock, call, history, cleared_at, flush_failed, returned,
          last_send_clock>>

VARIABLES
    red_window,         \* MAX30102.red_window
    ir_window,          \* MAX30102.ir_window
    downsample_counter, \* MAX30102._downsample_counter
    last_spo2,          \* MAX30102._last_spo2: <<>> for None, else <<numerator, denominator>>
    pc,                 \* "idle", or "reading" inside the loop of _read_fifo_samples
    samples,            \* _read_fifo_samples: the local list samples
    read_count,         \* _read_fifo_samples: the local read_count
    n_records,          \* observation: 6-byte records read from the FIFO in the current poll
    fed,                \* observation: every sample the reader has returned, in order
    retained,           \* observation: every pair appended to the windows, in order
    poll,               \* observation: what the last completed poll did
    hr_call,            \* observation: the last estimate_hr_simple call
    spo2_call,          \* observation: the last estimate_spo2_simple call
    boot,               \* MAX30102(i2c): how construction ended and what it wrote
    store               \* the collector's SharedDataStore and its request threads

sensorVars == <<red_window, ir_window, downsample_counter, last_spo2, pc, samples,
                read_count, n_records, fed, retained, poll, hr_call, spo2_call,
                boot, store>>

vars == <<uplinkVars, sensorVars>>

----------------------------------------------------------------------------
(* Bounds of the model.  The sizes and times of the program (BATCH_SIZE 20,  *)
(* max_buffer_points 200, flush_interval_ms 5000, max_value 10^9, SLEEP_MS  *)
(* 100, a tick period of 2^30 ms, a 5 s post timeout) are scaled down to    *)
(* values that keep their order: SLEEP_MS < flush interval < half the tick  *)
(* period.                                                                  *)

MaxBatchSize == 3
MaxBufferPoints == 3
FlushInterval == 2
MaxMaxValue == 3
MaxAdds == 4
MaxElapsed == 4
\* ticks the streaming loop is followed for
MaxLoopElapsed == 7
MaxStep == 2
PostTimeoutTicks == 1
TICKS_PERIOD == 8
SLEEP_MS == 1

(* Bounds of the acquisition model: max_reads (32), DOWNSAMPLE_FACTOR (10)  *)
(* and MAX_SAMPLES (80) scaled down, and the samples fed over a run.         *)

max_reads == 2
Decim == 2
WinCap == 2
MaxFed == 6

(* Bound of the estimator inputs: sinusoid phases 0..MaxPhase, in hundredths *)
(* of a period.                                                              *)

MaxPhase == 3

(* Bound of the SpO2 runs: calls of estimate_spo2_simple per run.            *)

MaxEstimates == 3
\* calls of the SpO2 estimator followed when it is run on its own
MaxSpo2Calls == 2

(* Bounds of the collector: the capacity of the store, the points of a      *)
(* batch, the request threads and the requests they serve in a run.         *)

MaxStoreSize == 2
MaxBatchPoints == 2
NumThreads == 2
MaxRequests == 3

(* Program constants *)

DEVICE_ID == "esp32_001"
SAMPLE_RATE_HZ == 10
WINDOW_SECONDS == 8
MIN_WINDOW_SECONDS == 4
MAX_SAMPLES == SAMPLE_RATE_HZ * WINDOW_SECONDS

----------------------------------------------------------------------------
(* MicroPython time base.  The sender is constructed shortly before the    *)
(* tick counter wraps, so that both sides of the wrap are visited.         *)

StartClock == TICKS_PERIOD - 2

ticks_of(t) == t % TICKS_PERIOD

ticks_ms == ticks_of(clock)

ticks_diff(a, b) ==
    ((a - b + TICKS_PERIOD \div 2) % TICKS_PERIOD) - TICKS_PERIOD \div 2

----------------------------------------------------------------------------
(* The network: urequests.post either returns a response carrying a status *)
(* code or raises OSError (connection error, timeout).                     *)

Outcomes == {"ok", "error_status", "exception", "timeout"}

Post(outcome) ==
    CASE outcome = "ok"           -> [exc |-> "none",    status |-> 200]
      [] outcome = "error_status" -> [exc |-> "none",    status |-> 500]
      [] outcome = "exception"    -> [exc |-> "OSError", status |-> 0]
      [] outcome = "timeout"      -> [exc |-> "OSError", status |-> 0]

PostDuration(outcome) == IF outcome = "timeout" THEN PostTimeoutTicks ELSE 0

\* the classes an "except Exception" clause catches
ExceptException == {"Exception", "OSError", "ValueError", "KeyError"}

----------------------------------------------------------------------------
(* CycleCounter *)

\* a counter that advances twice for one point
CycleCounterNext_Twice(v, max) == IF v + 2 > max THEN 1 ELSE v + 2

\* a counter that wraps to 0 instead of 1
CycleCounterNext_WrapToZero(v, max) == IF v + 1 > max THEN 0 ELSE v + 1

CycleCounterNext(v, max) == IF v + 1 > max THEN 1 ELSE v + 1

----------------------------------------------------------------------------
(* VitalBatchSender *)

LastN(s, n) == SubSeq(s, Len(s) - n + 1, Len(s))

\* a hard limit that is never enforced
DropOldest_NoLimit(buf) == buf

\* a hard limit that drops the newest points instead of the oldest
DropOldest_KeepOldest(buf) ==
    IF Len(buf) > max_buffer_points
    THEN SubSeq(buf, 1, max_buffer_points)
    ELSE buf

DropOldest(buf) ==
    IF Len(buf) > max_buffer_points
    THEN SubSeq(buf, (Len(buf) - max_buffer_points) + 1, Len(buf))
    ELSE buf

\* an envelope whose end_cycle is taken from the oldest point
Payload_EndFromOldest(buf) ==
    [device_id  |-> DEVICE_ID,
     batch_info |-> [start_cycle  |-> buf[1]["cycle"],
                     end_cycle    |-> buf[1]["cycle"],
                     total_points |-> Len(buf)],
     data       |-> buf]

Payload(buf) ==
    [device_id  |-> DEVICE_ID,
     batch_info |-> [start_cycle  |-> buf[1]["cycle"],
                     end_cycle    |-> buf[Len(buf)]["cycle"],
                     total_points |-> Len(buf)],
     data       |-> buf]

NoSend(buf) ==
    [buffer |-> buf, last_send_ms |-> last_send_ms, sent |-> <<>>,
     status |-> <<>>, raised |-> FALSE, dur |-> 0]

\* a sender that clears the buffer and records the time whatever the outcome
SendBuffer_ClearAlways(buf, now_ms, outcome) ==
    IF buf = <<>>
    THEN NoSend(buf)
    ELSE [buffer |-> <<>>, last_send_ms |-> now_ms,
          sent |-> <<Payload(buf)>>,
          status |-> IF Post(outcome).exc = "none" THEN <<Post(outcome).status>> ELSE <<>>,
          raised |-> FALSE, dur |-> PostDuration(outcome)]

\* a sender that keeps the buffer and the old send time after a successful send
SendBuffer_KeepOnSuccess(buf, now_ms, outcome) ==
    IF buf = <<>>
    THEN NoSend(buf)
    ELSE [buffer |-> buf, last_send_ms |-> last_send_ms,
          sent |-> <<Payload(buf)>>,
          status |-> IF Post(outcome).exc = "none" THEN <<Post(outcome).status>> ELSE <<>>,
          raised |-> FALSE, dur |-> PostDuration(outcome)]

\* a sender that drops the oldest point whenever a send raises
SendBuffer_DropOnFailure(buf, now_ms, outcome) ==
    IF buf = <<>>
    THEN NoSend(buf)
    ELSE LET resp == Post(outcome) IN
         IF resp.exc = "none"
         THEN [buffer |-> <<>>, last_send_ms |-> now_ms,
               sent |-> <<Payload(buf)>>, status |-> <<resp.status>>,
               raised |-> FALSE, dur |-> PostDuration(outcome)]
         ELSE [buffer |-> Tail(buf), last_send_ms |-> last_send_ms,
               sent |-> <<Payload(buf)>>, status |-> <<>>,
               raised |-> FALSE, dur |-> PostDuration(outcome)]

\* a sender that keeps the newest point buffered after a successful send
SendBuffer_KeepNewest(buf, now_ms, outcome) ==
    IF buf = <<>>
    THEN NoSend(buf)
    ELSE LET resp == Post(outcome) IN
         IF resp.exc = "none"
         THEN [buffer |-> <<buf[Len(buf)]>>, last_send_ms |-> now_ms,
               sent |-> <<Payload(buf)>>, status |-> <<resp.status>>,
               raised |-> FALSE, dur |-> PostDuration(outcome)]
         ELSE [buffer |-> IF Len(buf) > max_buffer_points
                          THEN LastN(buf, max_buffer_points) ELSE buf,
               last_send_ms |-> last_send_ms,
               sent |-> <<Payload(buf)>>, status |-> <<>>,
               raised |-> FALSE, dur |-> PostDuration(outcome)]

SendBuffer(buf, now_ms, outcome) ==
    IF buf = <<>>
    THEN NoSend(buf)
    ELSE LET resp == Post(outcome) IN
         IF resp.exc = "none"
         THEN [buffer |-> <<>>, last_send_ms |-> now_ms,
               sent |-> <<Payload(buf)>>, status |-> <<resp.status>>,
               raised |-> FALSE, dur |-> PostDuration(outcome)]
         ELSE IF resp.exc \in ExceptException
         THEN [buffer |-> IF Len(buf) > max_buffer_points
                          THEN LastN(buf, max_buffer_points) ELSE buf,
               last_send_ms |-> last_send_ms,
               sent |-> <<Payload(buf)>>, status |-> <<>>,
               raised |-> FALSE, dur |-> PostDuration(outcome)]
         ELSE [buffer |-> buf, last_send_ms |-> last_send_ms,
               sent |-> <<Payload(buf)>>, status |-> <<>>,
               raised |-> TRUE, dur |-> PostDuration(outcome)]

\* a size trigger that fires only above batch_size
AddPointResult_Above(point, now_ms, outcome) ==
    LET buf == DropOldest(Append(buffer, point)) IN
    IF Len(buf) > batch_size
    THEN SendBuffer(buf, now_ms, outcome)
    ELSE NoSend(buf)

\* a size trigger that stops retrying once a send has failed
AddPointResult_BackOff(point, now_ms, outcome) ==
    LET buf == DropOldest(Append(buffer, point)) IN
    IF Len(buf) >= batch_size /\ ~flush_failed
    THEN SendBuffer(buf, now_ms, outcome)
    ELSE NoSend(buf)

AddPointResult(point, now_ms, outcome) ==
    LET buf == DropOldest(Append(buffer, point)) IN
    IF Len(buf) >= batch_size
    THEN SendBuffer(buf, now_ms, outcome)
    ELSE NoSend(buf)

\* a time trigger that posts an envelope without looking for buffered points
FlushIfDueResult_SendEmpty(now_ms, outcome) ==
    IF ticks_diff(now_ms, last_send_ms) < flush_interval_ms
    THEN NoSend(buffer)
    ELSE IF buffer # <<>>
         THEN SendBuffer(buffer, now_ms, outcome)
         ELSE [buffer |-> <<>>, last_send_ms |-> now_ms,
               sent |-> <<[device_id |-> DEVICE_ID,
                           batch_info |-> [start_cycle |-> 0, end_cycle |-> 0,
                                           total_points |-> 0],
                           data |-> <<>>]>>,
               status |-> <<Post(outcome).status>>, raised |-> FALSE,
               dur |-> PostDuration(outcome)]

FlushIfDueResult(now_ms, outcome) ==
    IF buffer = <<>>
    THEN NoSend(buffer)
    ELSE IF ticks_diff(now_ms, last_send_ms) >= flush_interval_ms
         THEN SendBuffer(buffer, now_ms, outcome)
         ELSE NoSend(buffer)

\* "0 if x is None else x" for an estimate
OrZeroRat(x) == IF x = <<>> THEN <<0, 1>> ELSE x

\* a data point with the two estimates in each other's field
DataPoint_Swapped(cycle, now_ms) ==
    [cycle |-> cycle,
     timestamp |-> now_ms,
     vital_signs |->
        [ppg |-> [ir |-> IF poll.latest = <<>> THEN 0 ELSE poll.latest[2],
                  red |-> IF poll.latest = <<>> THEN 0 ELSE poll.latest[1],
                  heartrate |-> OrZeroRat(spo2_call.out),
                  spo2 |-> OrZeroRat(hr_call.out)],
         temperature |-> "temp_c",
         humidity |-> "humidity",
         force |-> "fsr_raw",
         accel |-> [ax |-> "ax", ay |-> "ay", az |-> "az"]]]

\* a data point whose PPG object lacks the spo2 field
DataPoint_NoSpo2(cycle, now_ms) ==
    [cycle |-> cycle,
     timestamp |-> now_ms,
     vital_signs |->
        [ppg |-> [ir |-> IF poll.latest = <<>> THEN 0 ELSE poll.latest[2],
                  red |-> IF poll.latest = <<>> THEN 0 ELSE poll.latest[1],
                  heartrate |-> OrZeroRat(hr_call.out)],
         temperature |-> "temp_c",
         humidity |-> "humidity",
         force |-> "fsr_raw",
         accel |-> [ax |-> "ax", ay |-> "ay", az |-> "az"]]]

\* the loop's data_point: red, ir, heartrate and spo2 are what this
\* iteration's get_latest_pair, estimate_hr_simple and estimate_spo2_simple
\* returned; the other sensors' readings are passed through as they are
DataPoint(cycle, now_ms) ==
    [cycle |-> cycle,
     timestamp |-> now_ms,
     vital_signs |->
        [ppg |-> [ir |-> IF poll.latest = <<>> THEN 0 ELSE poll.latest[2],
                  red |-> IF poll.latest = <<>> THEN 0 ELSE poll.latest[1],
                  heartrate |-> OrZeroRat(hr_call.out),
                  spo2 |-> OrZeroRat(spo2_call.out)],
         temperature |-> "temp_c",
         humidity |-> "humidity",
         force |-> "fsr_raw",
         accel |-> [ax |-> "ax", ay |-> "ay", az |-> "az"]]]

----------------------------------------------------------------------------
(* Observation of a call: r is the result of the sender's method *)

Attempted(r) == r.sent # <<>>
Cleared(r) == Attempted(r) /\ r.status # <<>>
Failed(r) == Attempted(r) /\ r.status = <<>>

Observe(op, t, outcome, r, appended) ==
    [op |-> op, now |-> ticks_of(t),
     outcome |-> IF Attempted(r) THEN outcome ELSE "none",
     sent |-> r.sent, status |-> r.status, raised |-> r.raised,
     pre_buffer |-> buffer, pre_last_send_ms |-> last_send_ms,
     pre_elapsed |-> t - last_send_clock, pre_failed |-> flush_failed,
     appended |-> appended]

InitCall ==
    [op |-> "init", now |-> 0, outcome |-> "none", sent |-> <<>>, status |-> <<>>,
     raised |-> FALSE, pre_buffer |-> <<>>, pre_last_send_ms |-> 0,
     pre_elapsed |-> 0, pre_failed |-> FALSE, appended |-> <<>>]

\* the points added since the buffer was last cleared
added == SubSeq(history, cleared_at + 1, Len(history))

----------------------------------------------------------------------------
(* Collector: DataValidator.validate_batch_request of                        *)
(* src/gcp-server/vitalguard/validation.py.  A JSON object is a record and   *)
(* "field in obj" is membership in its DOMAIN; the result is "ok" or the     *)
(* error message's kind.                                                     *)

HasAll(obj, fields) == \A f \in fields : f \in DOMAIN obj

ValidateBatchRequest(data) ==
    IF ~HasAll(data, {"device_id", "batch_info", "data"}) THEN "missing_field"
    ELSE IF ~HasAll(data.batch_info, {"start_cycle", "end_cycle", "total_points"})
         THEN "missing_batch_info_field"
    ELSE IF Len(data.data) = 0 THEN "empty_data"
    ELSE LET first_point == data.data[1] IN
         IF ~HasAll(first_point, {"cycle", "timestamp", "vital_signs"})
         THEN "missing_point_field"
         ELSE LET vital_signs == first_point.vital_signs IN
              IF "ppg" \notin DOMAIN vital_signs THEN "missing_ppg"
              ELSE IF ~HasAll(vital_signs.ppg, {"ir", "red"}) THEN "missing_ir_red"
              ELSE IF ~HasAll(vital_signs.ppg, {"heartrate", "spo2"})
                   THEN "missing_ppg_field"
              ELSE IF "accel" \in DOMAIN vital_signs
                      /\ ~HasAll(vital_signs.accel, {"ax", "ay", "az"})
                   THEN "missing_accel_axis"
              ELSE "ok"

----------------------------------------------------------------------------
(* MAX30102: construction *)

\* register addresses
REG_INTR_ENABLE_1 == 2
REG_INTR_ENABLE_2 == 3
REG_FIFO_WR_PTR == 4
REG_OVF_COUNTER == 5
REG_FIFO_RD_PTR == 6
REG_FIFO_CONFIG == 8
REG_MODE_CONFIG == 9
REG_SPO2_CONFIG == 10
REG_LED1_PA == 12
REG_LED2_PA == 13
REG_PART_ID == 255

\* the part id of a MAX30102 (0x15)
PART_ID_MAX30102 == 21

\* the <<register, value>> writes of _configure_sensor followed by those of
\* _clear_fifo_pointers
ConfigWrites ==
    << <<REG_MODE_CONFIG, 64>>,
       <<REG_FIFO_CONFIG, 79>>,
       <<REG_SPO2_CONFIG, 39>>,
       <<REG_LED1_PA, 36>>,
       <<REG_LED2_PA, 36>>,
       <<REG_INTR_ENABLE_1, 192>>,
       <<REG_INTR_ENABLE_2, 0>>,
       <<REG_MODE_CONFIG, 3>>,
       <<REG_FIFO_WR_PTR, 0>>,
       <<REG_OVF_COUNTER, 0>>,
       <<REG_FIFO_RD_PTR, 0>> >>

\* what the read of REG_PART_ID gives: <<byte>>, or <<>> when it raises OSError
PartIdReads == {<<PART_ID_MAX30102>>, <<0>>, <<17>>, <<255>>, <<>>}

\* _check_part_id returns normally (TRUE) or raises (FALSE)
CheckPartId_AcceptAny(part_id) == part_id # <<>>

CheckPartId(part_id) ==
    IF part_id = <<>> THEN FALSE ELSE part_id[1] = PART_ID_MAX30102

\* MAX30102.__init__ when REG_PART_ID reads part_id and the bus carries
\* n_writes register writes before it fails (all of them: no failure); the
\* reads of _configure_sensor's reset wait change nothing and are left out
Construct(part_id, n_writes) ==
    IF ~CheckPartId(part_id)
    THEN [state |-> "aborted", part_id |-> part_id, writes |-> <<>>]
    ELSE [state |-> IF n_writes < Len(ConfigWrites) THEN "aborted" ELSE "built",
          part_id |-> part_id,
          writes |-> SubSeq(ConfigWrites, 1, n_writes)]

NotConstructed == [state |-> "start", part_id |-> <<>>, writes |-> <<>>]

----------------------------------------------------------------------------
(* MAX30102: FIFO reader and window manager *)

\* a decoder that keeps all 24 bits
Decode_NoMask(b0, b1, b2) == b0 * 65536 + b1 * 256 + b2

\* ((b0 << 16) | (b1 << 8) | b2) & 0x03FFFF, for bytes b0, b1, b2
Decode(b0, b1, b2) == (b0 * 65536 + b1 * 256 + b2) % 262144

\* a 6-byte FIFO record decoded into (red, ir)
DecodeRecord(raw) ==
    <<Decode(raw[1], raw[2], raw[3]), Decode(raw[4], raw[5], raw[6])>>

\* the records the sensor presents: a plain pair, all-zero bytes, bytes whose
\* 18 low bits are all zero, and records with exactly one zero channel
Records ==
    { <<0, 0, 1, 0, 0, 2>>,
      <<0, 0, 0, 0, 0, 0>>,
      <<4, 0, 0, 252, 0, 0>>,
      <<0, 0, 0, 0, 0, 3>>,
      <<7, 1, 2, 0, 0, 0>> }

\* the 6-byte records one poll reads at most in the model: zero records are
\* read beyond max_reads
MaxRecords == max_reads + 1

\* where a register read can fail inside one loop iteration: at a status
\* register or at the FIFO data register
BusErrorPlaces == {"intr_status", "fifo_data"}

\* "if red == 0 and ir == 0: continue"
IsZeroRecord_Either(pair) == pair[1] = 0 \/ pair[2] = 0

IsZeroRecord(pair) == pair[1] = 0 /\ pair[2] = 0

\* what the reader returns once a register read has raised OSError
OnBusError_Partial(smp) == smp

OnBusError(smp) == <<>>

\* "if self._downsample_counter < DOWNSAMPLE_FACTOR: continue", negated
Due_Early(c, factor) == c >= factor - 1

Due(c, factor) == c >= factor

\* append to both windows, then pop index 0 of both when ir_window is too long
AppendPair_NoEvict(st, pair, cap) ==
    [red |-> Append(st.red, pair[1]), ir |-> Append(st.ir, pair[2])]

AppendPair_EvictNewest(st, pair, cap) ==
    LET red == Append(st.red, pair[1])
        ir == Append(st.ir, pair[2])
        over == Len(ir) > cap
    IN [red |-> IF over THEN SubSeq(red, 1, Len(red) - 1) ELSE red,
        ir |-> IF over THEN SubSeq(ir, 1, Len(ir) - 1) ELSE ir]

AppendPair(st, pair, cap) ==
    LET red == Append(st.red, pair[1])
        ir == Append(st.ir, pair[2])
        over == Len(ir) > cap
    IN [red |-> IF over THEN Tail(red) ELSE red,
        ir |-> IF over THEN Tail(ir) ELSE ir]

\* one pass of "for red, ir in samples" over st = [red, ir, counter, kept]
RECURSIVE Decimate(_, _, _, _)
Decimate(st, smp, factor, cap) ==
    IF smp = <<>>
    THEN st
    ELSE LET c == st.counter + 1 IN
         IF ~Due(c, factor)
         THEN Decimate([st EXCEPT !.counter = c], Tail(smp), factor, cap)
         ELSE LET w == AppendPair(st, Head(smp), cap)
              IN Decimate([red |-> w.red, ir |-> w.ir, counter |-> 0,
                           kept |-> Append(st.kept, Head(smp))],
                          Tail(smp), factor, cap)

\* a window manager that restarts the decimation counter at every poll
UpdateWindow_RestartCounter(smp, factor, cap) ==
    LET st == [red |-> red_window, ir |-> ir_window, counter |-> 0, kept |-> <<>>]
    IN IF smp = <<>> THEN st ELSE Decimate(st, smp, factor, cap)

\* _update_window_from_sensor, given what _read_fifo_samples returned
UpdateWindow(smp, factor, cap) ==
    LET st == [red |-> red_window, ir |-> ir_window,
               counter |-> downsample_counter, kept |-> <<>>]
    IN IF smp = <<>> THEN st ELSE Decimate(st, smp, factor, cap)

\* a lookup that returns the oldest entries of the windows
LatestPair_Oldest(red, ir) ==
    IF ir = <<>> THEN <<>> ELSE <<red[1], ir[1]>>

\* get_latest_pair's return value: <<>> for (None, None)
LatestPair(red, ir) ==
    IF ir = <<>> THEN <<>> ELSE <<red[Len(red)], ir[Len(ir)]>>

InitPoll ==
    [returned |-> <<>>, discarded |-> <<>>, error |-> "none", raised |-> FALSE,
     pre_red |-> <<>>, pre_ir |-> <<>>, pre_counter |-> 0, pre_spo2 |-> <<>>,
     latest |-> <<>>]

NoEstimate ==
    [out |-> <<>>, peaks |-> <<>>, calls |-> 0, red |-> <<>>, ir |-> <<>>,
     prev |-> <<>>]

NoSpo2 ==
    [gate |-> "none", R |-> <<>>, raw |-> <<>>, out |-> <<>>, pre_last |-> <<>>,
     calls |-> 0, value |-> <<>>, pre_value |-> <<>>, unavail |-> 0,
     pre_unavail |-> 0]

\* the fields of the sensor object with the given windows and everything else
\* as __init__ sets it
----------------------------------------------------------------------------
(* The collector: SharedDataStore.  A request thread is at "idle", before    *)
(* the lock ("a_lock", "r_lock", "i_lock"), inside the with-block ("a_loop", *)
(* "r_read", "i_read") or about to leave it ("a_unlock", "r_unlock",        *)
(* "i_unlock").                                                              *)

Threads == 1..NumThreads

NewThread ==
    [pc |-> "idle", op |-> "none", batch |-> <<>>, i |-> 0, added_count |-> 0,
     count |-> 0, busy |-> FALSE]

NoObs ==
    [kind |-> "none", size |-> 0, count |-> 0, none |-> FALSE, items |-> <<>>,
     total_received |-> 0, total_batches |-> 0, committed |-> <<>>,
     waited |-> FALSE]

\* SharedDataStore(max_size); lock is 0 when free, else the holder's thread;
\* committed lists the batches of the add_batch calls that have left the
\* with-block, obs is what the last reader read, and a thread is busy when
\* another thread held the lock as its call started
NewStore(max_size) ==
    [max_size |-> max_size, data_buffer |-> <<>>, lock |-> 0,
     total_received |-> 0, total_batches |-> 0,
     thr |-> [t \in Threads |-> NewThread],
     requests |-> 0, committed |-> <<>>, obs |-> NoObs]

\* deque(maxlen = max_size).append(point)
DequeAppend(buf, point, maxlen) ==
    LET b == Append(buf, point)
    IN IF Len(b) > maxlen THEN Tail(b) ELSE b

\* a with-block that does not wait for the lock
CanAcquire_Unlocked(lock) == TRUE

\* "with self.lock": entered when no thread holds the lock
CanAcquire(lock) == lock = 0

SensorFields(red, ir) ==
    /\ red_window = red
    /\ ir_window = ir
    /\ downsample_counter = 0
    /\ last_spo2 = <<>>
    /\ pc = "idle"
    /\ samples = <<>>
    /\ read_count = 0
    /\ n_records = 0
    /\ fed = <<>>
    /\ retained = <<>>
    /\ poll = InitPoll
    /\ hr_call = NoEstimate
    /\ spo2_call = NoSpo2

\* a sensor object whose construction has succeeded
SensorWith(red, ir) ==
    /\ SensorFields(red, ir)
    /\ boot = Construct(<<PART_ID_MAX30102>>, Len(ConfigWrites))
    /\ store = NewStore(MaxStoreSize)

SensorInit == SensorWith(<<>>, <<>>)

----------------------------------------------------------------------------
(* MAX30102: heart-rate estimator.  The estimator's floats are modelled as  *)
(* exact rationals: a sample minus the mean is kept as n * x - sum, a moving *)
(* average as the sum of its window, and the result as <<num, den>>.         *)

\* s[lo] + ... + s[hi], by halving the range
RECURSIVE RangeSum(_, _, _)
RangeSum(s, lo, hi) ==
    IF lo > hi THEN 0
    ELSE IF lo = hi THEN s[lo]
    ELSE LET mid == (lo + hi) \div 2
         IN RangeSum(s, lo, mid) + RangeSum(s, mid + 1, hi)

SeqSum(s) == RangeSum(s, 1, Len(s))

SeqMax(s) == CHOOSE m \in {s[i] : i \in 1..Len(s)} : \A i \in 1..Len(s) : s[i] <= m

SeqMin(s) == CHOOSE m \in {s[i] : i \in 1..Len(s)} : \A i \in 1..Len(s) : s[i] >= m

\* window * _moving_average(signal, window)[i - 1], for i in 1..Len(signal)
MovingAverage(signal, window) ==
    LET n == Len(signal) IN
    IF window <= 1 \/ n <= window
    THEN [i \in 1..n |-> window * signal[i]]
    ELSE [i \in 1..n |->
            LET j == IF i > window - 1 THEN i - (window - 1) ELSE 1
            IN RangeSum(signal, j, j + window - 1)]

\* min_samples = int(SAMPLE_RATE_HZ * MIN_WINDOW_SECONDS); "if n < min_samples"
TooShort_Half(n) == n < (SAMPLE_RATE_HZ * MIN_WINDOW_SECONDS) \div 2

TooShort(n) == n < SAMPLE_RATE_HZ * MIN_WINDOW_SECONDS

\* min_distance = int(0.3 * SAMPLE_RATE_HZ)
MinDistance_One == SAMPLE_RATE_HZ \div 10

MinDistance == (3 * SAMPLE_RATE_HZ) \div 10

\* a peak test that accepts the left end of a plateau
IsPeak_Plateau(smoothed, i, max_val) ==
    /\ 10 * smoothed[i] > 3 * max_val
    /\ smoothed[i] > smoothed[i - 1]
    /\ smoothed[i] >= smoothed[i + 1]

\* the three comparisons of the peak test at 1-based index i; the threshold is
\* 0.3 * max_val
IsPeak(smoothed, i, max_val) ==
    /\ 10 * smoothed[i] > 3 * max_val
    /\ smoothed[i] > smoothed[i - 1]
    /\ smoothed[i] > smoothed[i + 1]

\* "for i in range(1, len(smoothed) - 1)" with 1-based positions: the scan
\* accepts, after a peak at last_peak, the first later index that passes the
\* peak test and lies min_distance or more after it; last_peak starts at
\* 1 - min_distance
RECURSIVE FindPeaks(_, _, _)
FindPeaks(candidates, last_peak, peaks) ==
    LET later == {i \in candidates : i > last_peak /\ i - last_peak >= MinDistance}
    IN IF later = {}
       THEN peaks
       ELSE LET i == CHOOSE c \in later : \A d \in later : c <= d
            IN FindPeaks(candidates, i, Append(peaks, i))

\* intervals measured from the first peak instead of the previous one
Intervals_FromFirst(peaks) ==
    SelectSeq([i \in 1..(Len(peaks) - 1) |-> peaks[i + 1] - peaks[1]],
              LAMBDA dt : dt > 0)

\* the intervals dt_samples = peaks[i] - peaks[i - 1] that are kept (dt > 0)
Intervals(peaks) ==
    SelectSeq([i \in 1..(Len(peaks) - 1) |-> peaks[i + 1] - peaks[i]],
              LAMBDA dt : dt > 0)

\* a DC removal that leaves the signal as it is
RemoveDc_Keep(data) == [i \in 1..Len(data) |-> Len(data) * data[i]]

\* len(data) * (x - mean_val) for the samples x of data, mean_val = sum / len
RemoveDc(data) ==
    LET total == SeqSum(data)
    IN [i \in 1..Len(data) |-> Len(data) * data[i] - total]

\* an estimator that returns before the peak scan
NoHr == [out |-> <<>>, peaks |-> <<>>]

\* estimate_hr_simple on a window: out is <<>> for None, else the rational
\* <<num, den>> with hr_bpm = 60 / (sum(dt / SAMPLE_RATE_HZ) / len) = num / den;
\* peaks is the list of accepted peaks, as 1-based positions
HrTrace(ir_buffer) ==
    LET n == Len(ir_buffer) IN
    IF TooShort(n) THEN NoHr
    ELSE LET data == IF n > MAX_SAMPLES THEN LastN(ir_buffer, MAX_SAMPLES)
                     ELSE ir_buffer
             m == Len(data)
         IN IF m = 0 THEN NoHr
            ELSE LET ac == RemoveDc(data)
                     smoothed == MovingAverage(ac, 5)
                     max_val == SeqMax(smoothed)
                 IN IF max_val <= 0 THEN NoHr
                    ELSE LET candidates == {i \in 2..(m - 1) :
                                               IsPeak(smoothed, i, max_val)}
                             peaks == FindPeaks(candidates, 1 - MinDistance, <<>>)
                             intervals == Intervals(peaks)
                         IN [peaks |-> peaks,
                             out |-> IF Len(peaks) < 2 \/ intervals = <<>>
                                        \/ SeqSum(intervals) <= 0
                                     THEN <<>>
                                     ELSE <<60 * SAMPLE_RATE_HZ * Len(intervals),
                                            SeqSum(intervals)>>]

EstimateHr(ir_buffer) == HrTrace(ir_buffer).out

\* an estimator that reads the red window
HrInput_Red(red, ir) == red

\* "ir_buffer = self.ir_window": the window estimate_hr_simple reads
HrInput(red, ir) == ir

----------------------------------------------------------------------------
(* MAX30102: SpO2 estimator.  Floats are exact rationals <<num, den>> with   *)
(* den > 0, kept in lowest terms.                                            *)

RECURSIVE Gcd(_, _)
Gcd(a, b) == IF b = 0 THEN a ELSE Gcd(b, a % b)

Abs(x) == IF x < 0 THEN -x ELSE x

Rat(num, den) ==
    LET g == Gcd(Abs(num), den) IN <<num \div g, den \div g>>

RatLess(p, q) == p[1] * q[2] < q[1] * p[2]

\* raw_spo2 = 110.0 - 25.0 * R
RawSpo2(R) == Rat(110 * R[2] - 25 * R[1], R[2])

\* the clamp of raw_spo2 to [70.0, 100.0]
Clamp_UpperOnly(raw) ==
    IF RatLess(<<100, 1>>, raw) THEN <<100, 1>> ELSE raw

Clamp(raw) ==
    IF RatLess(raw, <<70, 1>>) THEN <<70, 1>>
    ELSE IF RatLess(<<100, 1>>, raw) THEN <<100, 1>>
    ELSE raw

\* (1.0 - alpha) * self._last_spo2 + alpha * raw_spo2 with alpha = 0.3, and
\* raw_spo2 alone when there is no previous estimate (last = <<>>)
Smooth_Swapped(last, raw) ==
    IF last = <<>> THEN raw
    ELSE Rat(3 * last[1] * raw[2] + 7 * raw[1] * last[2], 10 * last[2] * raw[2])

Smooth(last, raw) ==
    IF last = <<>> THEN raw
    ELSE Rat(7 * last[1] * raw[2] + 3 * raw[1] * last[2], 10 * last[2] * raw[2])

\* gates whose noise floor rejects when either ratio is below it
Spo2Gate_EitherNoise(red_buffer, ir_buffer) ==
    LET n == IF Len(red_buffer) < Len(ir_buffer) THEN Len(red_buffer)
             ELSE Len(ir_buffer)
        window_len == IF n < MAX_SAMPLES THEN n ELSE MAX_SAMPLES
        red_data == LastN(red_buffer, window_len)
        ir_data == LastN(ir_buffer, window_len)
        red_sum == SeqSum(red_data)
        ir_sum == SeqSum(ir_data)
        red_ac == SeqMax(red_data) - SeqMin(red_data)
        ir_ac == SeqMax(ir_data) - SeqMin(ir_data)
        R == <<red_ac * ir_sum, ir_ac * red_sum>>
    IN IF n < SAMPLE_RATE_HZ * MIN_WINDOW_SECONDS THEN "too_short"
       ELSE IF window_len = 0 THEN "empty"
       ELSE IF red_sum < 5000 * window_len \/ ir_sum < 5000 * window_len
            THEN "low_dc"
       ELSE IF red_ac <= 0 \/ ir_ac <= 0 THEN "no_ac"
       ELSE IF 1000 * red_ac * window_len < red_sum
               \/ 1000 * ir_ac * window_len < ir_sum
            THEN "noise"
       ELSE IF red_ac * window_len <= 0 \/ ir_ac * window_len <= 0
            THEN "nonpositive_ratio"
       ELSE IF 5 * R[1] < R[2] \/ R[1] > 3 * R[2] THEN "ratio_range"
       ELSE "pass"

\* the gate that rejects the windows, or "pass"
Spo2Gate(red_buffer, ir_buffer) ==
    LET n == IF Len(red_buffer) < Len(ir_buffer) THEN Len(red_buffer)
             ELSE Len(ir_buffer)
        window_len == IF n < MAX_SAMPLES THEN n ELSE MAX_SAMPLES
        red_data == LastN(red_buffer, window_len)
        ir_data == LastN(ir_buffer, window_len)
        red_sum == SeqSum(red_data)
        ir_sum == SeqSum(ir_data)
        red_ac == SeqMax(red_data) - SeqMin(red_data)
        ir_ac == SeqMax(ir_data) - SeqMin(ir_data)
        R == <<red_ac * ir_sum, ir_ac * red_sum>>
    IN IF n < SAMPLE_RATE_HZ * MIN_WINDOW_SECONDS THEN "too_short"
       ELSE IF window_len = 0 THEN "empty"
       ELSE IF red_sum < 5000 * window_len \/ ir_sum < 5000 * window_len
            THEN "low_dc"
       ELSE IF red_ac <= 0 \/ ir_ac <= 0 THEN "no_ac"
       ELSE IF 1000 * red_ac * window_len < red_sum
               /\ 1000 * ir_ac * window_len < ir_sum
            THEN "noise"
       ELSE IF red_ac * window_len <= 0 \/ ir_ac * window_len <= 0
            THEN "nonpositive_ratio"
       ELSE IF 5 * R[1] < R[2] \/ R[1] > 3 * R[2] THEN "ratio_range"
       ELSE "pass"

\* R = red_ratio / ir_ratio = (red_ac / red_dc) / (ir_ac / ir_dc), for windows
\* that pass the gates (both channels span the same window_len samples)
Spo2Ratio(red_buffer, ir_buffer) ==
    LET n == IF Len(red_buffer) < Len(ir_buffer) THEN Len(red_buffer)
             ELSE Len(ir_buffer)
        window_len == IF n < MAX_SAMPLES THEN n ELSE MAX_SAMPLES
        red_data == LastN(red_buffer, window_len)
        ir_data == LastN(ir_buffer, window_len)
    IN Rat((SeqMax(red_data) - SeqMin(red_data)) * SeqSum(ir_data),
           (SeqMax(ir_data) - SeqMin(ir_data)) * SeqSum(red_data))

\* an estimator that starts over after contact was lost (low DC level)
EstimateSpo2_ClearOnLowDc(red_buffer, ir_buffer, last) ==
    LET gate == Spo2Gate(red_buffer, ir_buffer) IN
    IF gate # "pass"
    THEN [gate |-> gate, R |-> <<>>, raw |-> <<>>, out |-> <<>>,
          last |-> IF gate = "low_dc" THEN <<>> ELSE last]
    ELSE LET raw == Clamp(RawSpo2(Spo2Ratio(red_buffer, ir_buffer)))
         IN [gate |-> gate, R |-> Spo2Ratio(red_buffer, ir_buffer), raw |-> raw,
             out |-> Smooth(last, raw), last |-> Smooth(last, raw)]

\* an estimator that forgets its smoothing state when a gate fails
EstimateSpo2_ResetOnFail(red_buffer, ir_buffer, last) ==
    LET gate == Spo2Gate(red_buffer, ir_buffer) IN
    IF gate # "pass"
    THEN [gate |-> gate, R |-> <<>>, raw |-> <<>>, out |-> <<>>, last |-> <<>>]
    ELSE LET raw == Clamp(RawSpo2(Spo2Ratio(red_buffer, ir_buffer)))
         IN [gate |-> gate, R |-> Spo2Ratio(red_buffer, ir_buffer), raw |-> raw,
             out |-> Smooth(last, raw), last |-> Smooth(last, raw)]

\* estimate_spo2_simple: what it returns (out, <<>> for None) and the new
\* _last_spo2, with the gate and the intermediate values for observation
EstimateSpo2(red_buffer, ir_buffer, last) ==
    LET gate == Spo2Gate(red_buffer, ir_buffer) IN
    IF gate # "pass"
    THEN [gate |-> gate, R |-> <<>>, raw |-> <<>>, out |-> <<>>, last |-> last]
    ELSE LET R == Spo2Ratio(red_buffer, ir_buffer)
             raw == Clamp(RawSpo2(R))
             smoothed == Smooth(last, raw)
         IN [gate |-> gate, R |-> R, raw |-> raw, out |-> smoothed,
             last |-> smoothed]

\* n samples alternating between base - amp and base + amp
AltWindow(base, amp, n) ==
    [k \in 1..n |-> IF k % 2 = 1 THEN base - amp ELSE base + amp]

DcLevels == {4000, 6000, 10000}
Amplitudes == {0, 2, 30, 60}

\* the window pairs the SpO2 estimator is run on
Spo2Windows ==
    { <<AltWindow(rb, ra, n), AltWindow(ib, ia, n)>> :
        rb \in {6000, 10000}, ib \in {6000, 10000}, ra \in {2, 30, 60},
        ia \in {2, 30, 60}, n \in {40} }
    \cup { <<AltWindow(6000, 30, n), AltWindow(ib, ia, n)>> :
        ib \in DcLevels, ia \in Amplitudes, n \in {39, MAX_SAMPLES} }
    \cup { <<AltWindow(b, ra, 40), AltWindow(b, ia, 40)>> :
        b \in {5000, 10000}, ra \in {2, 30}, ia \in {5, 10} }

(* Windows the estimators are run on.  A 1.2 Hz sinusoid sampled at 10 Hz    *)
(* repeats every 25 samples; SineTable[p + 1][k + 1] is                      *)
(* round(1000 * sin(2 * pi * 1.2 * k / 10 + 2 * pi * p / 100)).              *)

SineTable ==
    << <<0, 685, 998, 771, 125, -588, -982, -844, -249, 482, 951, 905, 368,
          -368, -905, -951, -482, 249, 844, 982, 588, -125, -771, -998, -685>>,
       <<63, 729, 1000, 729, 63, -637, -992, -809, -187, 536, 969, 876, 309,
          -426, -930, -930, -426, 309, 876, 969, 536, -187, -809, -992, -637>>,
       <<125, 771, 998, 685, 0, -685, -998, -771, -125, 588, 982, 844, 249,
          -482, -951, -905, -368, 368, 905, 951, 482, -249, -844, -982, -588>>,
       <<187, 809, 992, 637, -63, -729, -1000, -729, -63, 637, 992, 809, 187,
          -536, -969, -876, -309, 426, 930, 930, 426, -309, -876, -969, -536>>,
       <<249, 844, 982, 588, -125, -771, -998, -685, 0, 685, 998, 771, 125,
          -588, -982, -844, -249, 482, 951, 905, 368, -368, -905, -951, -482>>,
       <<309, 876, 969, 536, -187, -809, -992, -637, 63, 729, 1000, 729, 63,
          -637, -992, -809, -187, 536, 969, 876, 309, -426, -930, -930, -426>> >>

SinePeriod == Len(SineTable[1])

\* n samples of the sinusoid with phase index p on the baseline base
SineWindow(base, p, n) ==
    [k \in 1..n |-> base + SineTable[p + 1][((k - 1) % SinePeriod) + 1]]

\* n samples repeating the pattern pat on the baseline base
PatternWindow(base, pat, n) ==
    [k \in 1..n |-> base + pat[((k - 1) % Len(pat)) + 1]]

Levels == {0, 5, 9}
Patterns == UNION { [1..len -> Levels] : len \in 2..3 }
Lengths == {0, 1, 20, 39, 40, 41, 42, 80}
Baselines == {1000, 50000}

\* eight blocks c, 0, 0, 0, -c around the baseline, c falling from 8 to 1: the
\* signal is not flat, but no 5-sample mean rises above the overall mean
ChainWindow(base) ==
    [k \in 1..40 |->
        LET c == 8 - ((k - 1) \div 5)
            pos == (k - 1) % 5
        IN base + (IF pos = 0 THEN c ELSE IF pos = 4 THEN 0 - c ELSE 0)]

HrWindows ==
    { ChainWindow(base) : base \in Baselines }
    \cup
    { SineWindow(base, p, n) :
        base \in Baselines, p \in 0..MaxPhase, n \in {39, 40, MAX_SAMPLES} }
    \cup { PatternWindow(base, pat, n) :
        base \in {0, 1000}, pat \in Patterns, n \in Lengths }

----------------------------------------------------------------------------
(* Construction *)

UplinkInit ==
    /\ clock = StartClock
    /\ buffer = <<>>
    /\ last_send_ms = ticks_of(clock)
    /\ batch_size \in 1..MaxBatchSize
    /\ max_buffer_points \in 1..MaxBufferPoints
    /\ flush_interval_ms = FlushInterval
    /\ value = 0
    /\ max_value \in 1..MaxMaxValue
    /\ last_send = ticks_of(clock)
    /\ call = InitCall
    /\ history = <<>>
    /\ cleared_at = 0
    /\ flush_failed = FALSE
    /\ returned = <<>>
    /\ last_send_clock = clock

Init == UplinkInit /\ SensorInit

----------------------------------------------------------------------------
(* Operations *)

Config == <<batch_size, max_buffer_points, flush_interval_ms, max_value>>

\* the sender's state after a call made at time t with result r
SenderStepWithin(r, t, n_history, limit) ==
    /\ t + r.dur <= StartClock + limit
    /\ buffer' = r.buffer
    /\ last_send_ms' = r.last_send_ms
    /\ last_send_clock' = IF Cleared(r) THEN t ELSE last_send_clock
    /\ cleared_at' = IF Cleared(r) THEN n_history ELSE cleared_at
    /\ flush_failed' = IF Cleared(r) THEN FALSE ELSE (flush_failed \/ Failed(r))

SenderStep(r, t, n_history) == SenderStepWithin(r, t, n_history, MaxElapsed)

\* cycle = cycle_counter.next(); batch_sender.add_point(data_point)
Sample(outcome) ==
    /\ Len(history) < MaxAdds
    /\ LET cycle == CycleCounterNext(value, max_value)
           now_ms == ticks_ms
           point == DataPoint(cycle, now_ms)
           r == AddPointResult(point, now_ms, outcome)
       IN /\ SenderStep(r, clock, Len(history) + 1)
          /\ value' = cycle
          /\ returned' = Append(returned, cycle)
          /\ history' = Append(history, point)
          /\ clock' = clock + r.dur
          /\ call' = Observe("add_point", clock, outcome, r, <<point>>)
    /\ UNCHANGED <<Config, last_send>>
    /\ UNCHANGED sensorVars

\* batch_sender.flush_if_due()
FlushIfDue(outcome) ==
    /\ LET now_ms == ticks_ms
           r == FlushIfDueResult(now_ms, outcome)
       IN /\ SenderStep(r, clock, Len(history))
          /\ clock' = clock + r.dur
          /\ call' = Observe("flush_if_due", clock, outcome, r, <<>>)
    /\ UNCHANGED <<Config, value, returned, history, last_send>>
    /\ UNCHANGED sensorVars

\* time passing between calls
Tick ==
    /\ clock + 1 <= StartClock + MaxElapsed
    /\ clock' = clock + 1
    /\ UNCHANGED <<buffer, last_send_ms, Config, value, last_send, call, history,
                   cleared_at, flush_failed, returned, last_send_clock>>
    /\ UNCHANGED sensorVars

Next ==
    \/ \E outcome \in Outcomes : Sample(outcome)
    \/ \E outcome \in Outcomes : FlushIfDue(outcome)
    \/ Tick

Spec == Init /\ [][Next]_vars

----------------------------------------------------------------------------
(* The streaming loop: one action per iteration of "while True".  d ticks   *)
(* pass in the sensor reads and the sleep; a point is assembled and added   *)
(* only when more than SLEEP_MS has passed since the last one.              *)

\* from "now_ms = time.ticks_ms()" to the end of the loop body
LoopTail(d, outcome) ==
    /\ LET t == clock + d
           now_ms == ticks_of(t)
       IN IF ticks_diff(now_ms, last_send) > SLEEP_MS
       THEN /\ Len(history) < MaxAdds
            /\ LET cycle == CycleCounterNext(value, max_value)
                   point == DataPoint(cycle, now_ms)
                   r == AddPointResult(point, now_ms, outcome)
               IN /\ SenderStepWithin(r, t, Len(history) + 1, MaxLoopElapsed)
                  /\ last_send' = now_ms
                  /\ value' = cycle
                  /\ returned' = Append(returned, cycle)
                  /\ history' = Append(history, point)
                  /\ clock' = t + r.dur
                  /\ call' = Observe("loop", t, outcome, r, <<point>>)
            /\ UNCHANGED Config
       ELSE /\ t <= StartClock + MaxLoopElapsed
            /\ clock' = t
            /\ call' = Observe("loop", t, outcome, NoSend(buffer), <<>>)
            /\ UNCHANGED <<buffer, last_send_ms, Config, value, last_send, history,
                           cleared_at, flush_failed, returned, last_send_clock>>

\* one iteration with a sensor that has nothing to report
LoopIteration(d, outcome) ==
    /\ UNCHANGED sensorVars
    /\ LoopTail(d, outcome)

NextLoop == \E d \in 1..MaxStep, outcome \in Outcomes : LoopIteration(d, outcome)

SpecLoop == Init /\ [][NextLoop]_vars

----------------------------------------------------------------------------
(* Polling the sensor: get_latest_pair -> _update_window_from_sensor ->      *)
(* _read_fifo_samples.  Each iteration of the reader's while loop is one     *)
(* step; the step that leaves the loop also runs the rest of the poll (the   *)
(* decimation into the windows and get_latest_pair's return).                *)

\* the reader's locals at the top of a loop iteration: fresh when the poll starts
CurSamples == IF pc = "idle" THEN <<>> ELSE samples
CurReadCount == IF pc = "idle" THEN 0 ELSE read_count
CurRecords == IF pc = "idle" THEN 0 ELSE n_records

\* the poll ends: the reader returns ret (after discarding disc on a bus error)
\* and the caller continues at next_pc
EndPollTo(ret, disc, error, nrec, next_pc) ==
    LET st == UpdateWindow(ret, Decim, WinCap) IN
    /\ red_window' = st.red
    /\ ir_window' = st.ir
    /\ downsample_counter' = st.counter
    /\ fed' = fed \o ret
    /\ retained' = retained \o st.kept
    /\ poll' = [returned |-> ret, discarded |-> disc, error |-> error,
                raised |-> FALSE,
                pre_red |-> red_window, pre_ir |-> ir_window,
                pre_counter |-> downsample_counter, pre_spo2 |-> last_spo2,
                latest |-> LatestPair(st.red, st.ir)]
    /\ pc' = next_pc
    /\ samples' = <<>>
    /\ read_count' = 0
    /\ n_records' = nrec
    /\ UNCHANGED <<last_spo2, hr_call, spo2_call, boot, store>>

EndPoll(ret, disc, error, nrec) == EndPollTo(ret, disc, error, nrec, "idle")

\* self._read_reg raises OSError: "except OSError: return []"
FifoBusError(place) ==
    /\ EndPoll(OnBusError(CurSamples), CurSamples, place, CurRecords)
    /\ UNCHANGED uplinkVars

\* (intr1 & 0x40) == 0: break
FifoNotReady ==
    /\ EndPoll(CurSamples, <<>>, "none", CurRecords)
    /\ UNCHANGED uplinkVars

\* PPG_RDY set: one 6-byte record is read and decoded
FifoRecord(raw) ==
    LET pair == DecodeRecord(raw)
        nrec == CurRecords + 1
    IN /\ CurRecords < MaxRecords
       /\ UNCHANGED uplinkVars
       /\ IF IsZeroRecord(pair)
          THEN /\ pc' = "reading"
               /\ samples' = CurSamples
               /\ read_count' = CurReadCount
               /\ n_records' = nrec
               /\ UNCHANGED <<red_window, ir_window, downsample_counter, last_spo2,
                              fed, retained, poll, hr_call, spo2_call,
                                boot, store>>
          ELSE /\ Len(fed) + Len(CurSamples) < MaxFed
               /\ IF CurReadCount + 1 < max_reads
                  THEN /\ pc' = "reading"
                       /\ samples' = Append(CurSamples, pair)
                       /\ read_count' = CurReadCount + 1
                       /\ n_records' = nrec
                       /\ UNCHANGED <<red_window, ir_window, downsample_counter,
                                      last_spo2, fed, retained, poll, hr_call,
                                      spo2_call, boot, store>>
                  ELSE EndPoll(Append(CurSamples, pair), <<>>, "none", nrec)

NextAcq ==
    \/ \E place \in BusErrorPlaces : FifoBusError(place)
    \/ FifoNotReady
    \/ \E raw \in Records : FifoRecord(raw)

InitAcq ==
    /\ UplinkInit
    /\ batch_size = MaxBatchSize
    /\ max_buffer_points = MaxBufferPoints
    /\ max_value = MaxMaxValue
    /\ SensorInit

SpecAcq == InitAcq /\ [][NextAcq]_vars

----------------------------------------------------------------------------
(* Heart-rate estimation: estimate_hr_simple called on a sensor whose        *)
(* windows polling has filled with one of HrWindows (both channels alike).   *)

UplinkFixed ==
    /\ UplinkInit
    /\ batch_size = MaxBatchSize
    /\ max_buffer_points = MaxBufferPoints
    /\ max_value = MaxMaxValue

InitHR ==
    /\ UplinkFixed
    /\ \E w \in HrWindows : SensorWith(w, w)

\* sensor.estimate_hr_simple()
HrEstimateTo(next_pc) ==
    /\ LET t == HrTrace(HrInput(red_window, ir_window)) IN
       hr_call' = [out |-> t.out, peaks |-> t.peaks, calls |-> 1,
                   red |-> red_window, ir |-> ir_window,
                   prev |-> IF hr_call.calls = 0 THEN <<>>
                            ELSE <<[out |-> hr_call.out, red |-> hr_call.red,
                                    ir |-> hr_call.ir]>>]
    /\ pc' = next_pc
    /\ UNCHANGED <<red_window, ir_window, downsample_counter, last_spo2,
                   samples, read_count, n_records, fed, retained, poll,
                   spo2_call, boot, store>>
    /\ UNCHANGED uplinkVars

HrEstimate == hr_call.calls = 0 /\ HrEstimateTo(pc)

NextHR == HrEstimate

SpecHR == InitHR /\ [][NextHR]_vars

----------------------------------------------------------------------------
(* SpO2 estimation: estimate_spo2_simple called repeatedly, while polling    *)
(* replaces the content of both windows between the calls.                   *)

InitSpO2 ==
    /\ UplinkFixed
    /\ \E w \in Spo2Windows : SensorWith(w[1], w[2])

\* sensor.estimate_spo2_simple()
Spo2EstimateTo(next_pc) ==
    /\ spo2_call.calls < MaxEstimates
    /\ LET r == EstimateSpo2(red_window, ir_window, last_spo2) IN
       /\ last_spo2' = r.last
       /\ spo2_call' = [gate |-> r.gate, R |-> r.R, raw |-> r.raw, out |-> r.out,
                        pre_last |-> last_spo2, calls |-> spo2_call.calls + 1,
                        value |-> IF r.out = <<>> THEN spo2_call.value ELSE r.out,
                        pre_value |-> spo2_call.value,
                        unavail |-> IF r.out = <<>> THEN spo2_call.unavail + 1
                                    ELSE 0,
                        pre_unavail |-> spo2_call.unavail]
    /\ pc' = next_pc
    /\ UNCHANGED <<red_window, ir_window, downsample_counter, samples,
                   read_count, n_records, fed, retained, poll, hr_call,
                   boot, store>>
    /\ UNCHANGED uplinkVars

Spo2Estimate == spo2_call.calls < MaxSpo2Calls /\ Spo2EstimateTo(pc)

\* window_seconds of polling: both windows now hold the pair w
Refill(w) ==
    /\ pc = "idle"
    /\ spo2_call.calls < MaxEstimates
    /\ red_window' = w[1]
    /\ ir_window' = w[2]
    /\ UNCHANGED <<downsample_counter, last_spo2, pc, samples, read_count,
                   n_records, fed, retained, poll, hr_call, spo2_call,
                     boot, store>>
    /\ UNCHANGED uplinkVars

NextSpO2 ==
    \/ Spo2Estimate
    \/ \E w \in Spo2Windows : spo2_call.calls < MaxSpo2Calls /\ Refill(w)

SpecSpO2 == InitSpO2 /\ [][NextSpO2]_vars

----------------------------------------------------------------------------
(* Heart-rate estimation on a sensor whose two windows differ: polling      *)
(* replaces the content of the windows between the calls.                   *)

\* windows with different pulse rates, and one without a pulse
ChannelWindows ==
    { SineWindow(50000, 0, MAX_SAMPLES),
      PatternWindow(1000, <<0, 9>>, 40),
      PatternWindow(1000, <<0, 5, 9>>, 40),
      PatternWindow(1000, <<5, 5>>, 40) }

InitChannels ==
    /\ UplinkFixed
    /\ \E red \in ChannelWindows, ir \in ChannelWindows : SensorWith(red, ir)

ChannelHr == HrEstimateTo(pc)

NextChannels ==
    \/ ChannelHr
    \/ \E red \in ChannelWindows, ir \in ChannelWindows : Refill(<<red, ir>>)

SpecChannels == InitChannels /\ [][NextChannels]_vars

----------------------------------------------------------------------------
(* The device loop with a sensor in use.  One iteration is four steps, in    *)
(* the order of the loop body: get_latest_pair, estimate_hr_simple,          *)
(* estimate_spo2_simple, then the assembly and uplink of the data point.     *)
(* The polls of an iteration bring no sample (FIFO not ready, or a bus       *)
(* error); Refill stands for the iterations that fill the windows.           *)

\* one window pair per outcome of the SpO2 gates
DeviceWindows ==
    { <<AltWindow(6000, 30, 40), AltWindow(10000, 60, 40)>>,
      <<AltWindow(6000, 60, 40), AltWindow(6000, 30, 40)>>,
      <<AltWindow(6000, 30, 39), AltWindow(6000, 30, 39)>>,
      <<AltWindow(6000, 30, MAX_SAMPLES), AltWindow(4000, 30, MAX_SAMPLES)>>,
      <<AltWindow(6000, 30, MAX_SAMPLES), AltWindow(6000, 0, MAX_SAMPLES)>>,
      <<AltWindow(6000, 2, 40), AltWindow(10000, 2, 40)>>,
      <<AltWindow(6000, 60, 40), AltWindow(10000, 2, 40)>> }

InitDevice ==
    /\ UplinkInit
    /\ max_buffer_points = MaxBufferPoints
    /\ max_value = MaxMaxValue
    /\ SensorInit

\* red, ir = sensor_ppg.get_latest_pair()
DevicePoll(error) ==
    /\ pc = "idle"
    /\ spo2_call.calls < MaxEstimates
    /\ EndPollTo(<<>>, <<>>, error, 0, "polled")
    /\ UNCHANGED uplinkVars

\* heartrate = sensor_ppg.estimate_hr_simple()
DeviceHr ==
    /\ pc = "polled"
    /\ HrEstimateTo("hr_done")

\* spo2 = sensor_ppg.estimate_spo2_simple()
DeviceSpo2 ==
    /\ pc = "hr_done"
    /\ Spo2EstimateTo("spo2_done")

\* the other sensors are read and the data point is assembled and added
DeviceUplink(outcome) ==
    /\ pc = "spo2_done"
    /\ LoopTail(MaxStep, outcome)
    /\ pc' = "idle"
    /\ UNCHANGED <<red_window, ir_window, downsample_counter, last_spo2, samples,
                   read_count, n_records, fed, retained, poll, hr_call, spo2_call,
                     boot, store>>

NextDevice ==
    \/ \E w \in DeviceWindows : Refill(w)
    \/ \E error \in {"none"} \cup BusErrorPlaces : DevicePoll(error)
    \/ DeviceHr
    \/ DeviceSpo2
    \/ \E outcome \in {"ok", "exception"} : DeviceUplink(outcome)

SpecDevice == InitDevice /\ [][NextDevice]_vars

----------------------------------------------------------------------------
(* Start-up: "sensor_ppg = MAX30102(i2c)" runs once, before the loop; when   *)
(* it raises, the script ends there and the loop is never entered.           *)

InitBoot ==
    /\ UplinkInit
    /\ max_buffer_points = MaxBufferPoints
    /\ max_value = MaxMaxValue
    /\ SensorFields(<<>>, <<>>)
    /\ boot = NotConstructed
    /\ store = NewStore(MaxStoreSize)

\* sensor_ppg = MAX30102(i2c)
BootConstruct(part_id, n_writes) ==
    /\ boot.state = "start"
    /\ boot' = Construct(part_id, n_writes)
    /\ UNCHANGED <<red_window, ir_window, downsample_counter, last_spo2, pc,
                   samples, read_count, n_records, fed, retained, poll, hr_call,
                   spo2_call, store>>
    /\ UNCHANGED uplinkVars

\* the loop runs on a constructed sensor only
BootLoop == boot.state = "built" /\ NextDevice

NextBoot ==
    \/ \E part_id \in PartIdReads, n_writes \in 0..Len(ConfigWrites) :
            BootConstruct(part_id, n_writes)
    \/ BootLoop

SpecBoot == InitBoot /\ [][NextBoot]_vars

----------------------------------------------------------------------------
(* The collector's request threads.  Each handler is a sequence of steps:   *)
(* the start of the call, the entry into the with-block, the statements     *)
(* inside it (one step per appended point) and the exit from it.            *)

deviceVars ==
    <<uplinkVars, red_window, ir_window, downsample_counter, last_spo2, pc,
      samples, read_count, n_records, fed, retained, poll, hr_call, spo2_call,
      boot>>

InitStore ==
    /\ UplinkFixed
    /\ SensorFields(<<>>, <<>>)
    /\ boot = Construct(<<PART_ID_MAX30102>>, Len(ConfigWrites))
    /\ \E max_size \in 1..MaxStoreSize : store = NewStore(max_size)

\* a request thread starts serving a call; the threads are interchangeable,
\* so the call goes to the first idle one
StartCall(t, op, batch, count, first_pc) ==
    /\ store.thr[t].pc = "idle"
    /\ \A u \in Threads : u < t => store.thr[u].pc # "idle"
    /\ store.requests < MaxRequests
    /\ store' = [store EXCEPT !.requests = @ + 1,
                              !.thr[t] = [pc |-> first_pc, op |-> op,
                                          batch |-> batch, i |-> 0,
                                          added_count |-> 0, count |-> count,
                                          busy |-> store.lock # 0]]
    /\ UNCHANGED deviceVars

\* add_batch(data_points) with n points, named by the call and their index
AddBatchStart(t, n) ==
    StartCall(t, "add_batch", [k \in 1..n |-> <<store.requests + 1, k>>], 0,
              "a_lock")

\* get_recent_data(count)
GetRecentStart(t, count) == StartCall(t, "get_recent_data", <<>>, count, "r_lock")

\* get_buffer_info()
GetInfoStart(t) == StartCall(t, "get_buffer_info", <<>>, 0, "i_lock")

\* "with self.lock:" entered
Acquire(t) ==
    /\ store.thr[t].pc \in {"a_lock", "r_lock", "i_lock"}
    /\ CanAcquire(store.lock)
    /\ store' = [store EXCEPT !.lock = t,
                              !.thr[t].pc = CASE @ = "a_lock" -> "a_loop"
                                              [] @ = "r_lock" -> "r_read"
                                              [] @ = "i_lock" -> "i_read"]
    /\ UNCHANGED deviceVars

\* self.data_buffer.append(point); added_count += 1
AddBatchAppend(t) ==
    LET th == store.thr[t] IN
    /\ th.pc = "a_loop"
    /\ th.i < Len(th.batch)
    /\ store' = [store EXCEPT
                    !.data_buffer = DequeAppend(@, th.batch[th.i + 1],
                                                store.max_size),
                    !.thr[t].i = @ + 1,
                    !.thr[t].added_count = @ + 1]
    /\ UNCHANGED deviceVars

\* self.total_received += added_count; self.total_batches += 1
AddBatchTotals(t) ==
    LET th == store.thr[t] IN
    /\ th.pc = "a_loop"
    /\ th.i = Len(th.batch)
    /\ store' = [store EXCEPT !.total_received = @ + th.added_count,
                              !.total_batches = @ + 1,
                              !.thr[t].pc = "a_unlock"]
    /\ UNCHANGED deviceVars

\* the body of get_recent_data's with-block
GetRecentRead(t) ==
    LET th == store.thr[t]
        buffer_size == Len(store.data_buffer)
    IN /\ th.pc = "r_read"
       /\ store' = [store EXCEPT
                       !.obs = [kind |-> "recent", size |-> buffer_size,
                                count |-> th.count,
                                none |-> buffer_size < th.count,
                                items |-> IF buffer_size < th.count THEN <<>>
                                          ELSE LastN(store.data_buffer, th.count),
                                total_received |-> 0, total_batches |-> 0,
                                committed |-> store.committed,
                                waited |-> th.busy],
                       !.thr[t].pc = "r_unlock"]
       /\ UNCHANGED deviceVars

\* the body of get_buffer_info's with-block
GetInfoRead(t) ==
    /\ store.thr[t].pc = "i_read"
    /\ store' = [store EXCEPT
                    !.obs = [kind |-> "info", size |-> Len(store.data_buffer),
                             count |-> 0, none |-> FALSE, items |-> <<>>,
                             total_received |-> store.total_received,
                             total_batches |-> store.total_batches,
                             committed |-> store.committed,
                             waited |-> store.thr[t].busy],
                    !.thr[t].pc = "i_unlock"]
    /\ UNCHANGED deviceVars

\* the with-block is left and the call returns
Release(t) ==
    LET th == store.thr[t] IN
    /\ th.pc \in {"a_unlock", "r_unlock", "i_unlock"}
    /\ store' = [store EXCEPT
                    !.lock = 0,
                    !.committed = IF th.op = "add_batch" THEN Append(@, th.batch)
                                  ELSE @,
                    !.thr[t] = NewThread]
    /\ UNCHANGED deviceVars

NextStore ==
    \E t \in Threads :
        \/ \E n \in 1..MaxBatchPoints : AddBatchStart(t, n)
        \/ \E count \in 1..MaxStoreSize : GetRecentStart(t, count)
        \/ GetInfoStart(t)
        \/ Acquire(t)
        \/ AddBatchAppend(t)
        \/ AddBatchTotals(t)
        \/ GetRecentRead(t)
        \/ GetInfoRead(t)
        \/ Release(t)

SpecStore == InitStore /\ [][NextStore]_vars

----------------------------------------------------------------------------
(* Properties of the uplink buffer and the cycle counter *)

\* the buffer a call hands to _send_buffer: for add_point, the buffer after the
\* append and the capacity trim; for flush_if_due, the buffer as it was
FlushInput ==
    IF call.appended # <<>>
    THEN LET b == Append(call.pre_buffer, call.appended[1]) IN
         IF Len(b) > max_buffer_points THEN LastN(b, max_buffer_points) ELSE b
    ELSE call.pre_buffer

SendFailed == call.sent # <<>> /\ call.outcome \in {"exception", "timeout"}

\* C1: after every add_point or flush_if_due, whatever the outcome of the send it
\* triggers, the number of buffered points is at most max_buffer_points.
C1_BufferBounded == Len(buffer) <= max_buffer_points

\* C1 witness: an add_point on a full buffer whose send failed
C1_Witness ==
    /\ call.op = "add_point"
    /\ Len(call.pre_buffer) = max_buffer_points
    /\ SendFailed
    /\ Len(buffer) = max_buffer_points

\* C2 as stated: after more than max_buffer_points calls to add_point, whatever
\* the outcomes of the sends, the buffer holds exactly the max_buffer_points most
\* recently added points, in the order they were added.
C2_Original ==
    Len(history) > max_buffer_points =>
        /\ Len(buffer) = max_buffer_points
        /\ buffer = LastN(history, max_buffer_points)

\* C2 amended: after more than max_buffer_points calls to add_point since the
\* buffer was last cleared by a send that returned a response, the buffer holds
\* exactly the max_buffer_points most recently added points, in the order they
\* were added.
C2_MostRecentSinceCleared ==
    Len(added) > max_buffer_points =>
        /\ Len(buffer) = max_buffer_points
        /\ buffer = LastN(history, max_buffer_points)

\* C2 witness: more points than the capacity were added, every send they
\* triggered failed, and the oldest ones have been dropped
C2_Witness ==
    /\ Len(added) > max_buffer_points
    /\ batch_size <= max_buffer_points
    /\ call.op = "add_point"
    /\ SendFailed
    /\ max_buffer_points >= 2

\* C3: a flush whose send fails (exception or timeout) leaves the buffered points
\* and their order as they were before the flush, leaves the last-successful-send
\* time unchanged, and propagates no error to the caller.
C3_FailedFlushKeepsState ==
    SendFailed =>
        /\ buffer = FlushInput
        /\ last_send_ms = call.pre_last_send_ms
        /\ call.raised = FALSE

\* C3 witness: a due time-based flush of several points that failed
C3_Witness ==
    /\ call.op = "flush_if_due"
    /\ SendFailed
    /\ Len(buffer) >= 2
    /\ call.now # call.pre_last_send_ms

\* C4: after one or more failed flushes, the next successful flush sends an
\* envelope whose data is exactly the points buffered at that moment, and
\* afterwards the buffer is empty and the last-send time is the time passed to
\* that flush.
C4_SuccessAfterFailure ==
    (call.sent # <<>> /\ call.outcome = "ok" /\ call.pre_failed) =>
        /\ call.sent[1].data = FlushInput
        /\ buffer = <<>>
        /\ last_send_ms = call.now

\* C4 witness: a successful flush of several retained points after a failed one,
\* at a time other than the previous reference time
C4_Witness ==
    /\ call.sent # <<>>
    /\ call.outcome = "ok"
    /\ call.pre_failed
    /\ Len(call.sent[1].data) >= 2
    /\ call.now # call.pre_last_send_ms

\* C5 as stated: the buffer is emptied only by a flush confirmed successful by the
\* collector (a success status); a send that raises, times out or comes back with
\* an error status never removes points from the buffer.
C5_ClearedOnlyOnSuccessStatus ==
    (call.sent # <<>> /\ call.outcome # "ok") => buffer = FlushInput

\* C6: add_point makes exactly one send attempt, after the capacity trim, if and
\* only if the buffer length after appending and trimming is at least batch_size;
\* below batch_size it makes none.
C6_SizeTrigger ==
    call.op = "add_point" =>
        /\ Len(call.sent) <= 1
        /\ (Len(call.sent) = 1) <=> (Len(FlushInput) >= batch_size)
        /\ call.sent # <<>> => call.sent[1].data = FlushInput

\* C6 witness: an add_point on a full buffer that reached batch_size exactly after
\* the trim and made its attempt
C6_Witness ==
    /\ call.op = "add_point"
    /\ Len(call.sent) = 1
    /\ Len(call.pre_buffer) = max_buffer_points
    /\ Len(FlushInput) = batch_size

\* C7 as stated: flush_if_due(now) makes a send attempt if and only if the buffer
\* is non-empty and the time elapsed since the last successful send (or since
\* construction) is at least flush_interval; a failed attempt does not reset that
\* reference time, so every later due-check with a non-empty buffer attempts again.
C7_TimeTrigger ==
    call.op = "flush_if_due" =>
        ((call.sent # <<>>) <=>
            (call.pre_buffer # <<>> /\ call.pre_elapsed >= flush_interval_ms))

\* C8 as stated: in the device main loop, whenever the buffer is non-empty and at
\* least flush_interval has elapsed since the last successful send, a send attempt
\* is made within that loop iteration, even with fewer than batch_size points
\* buffered.  (Stated for elapsed times below half the tick period, where
\* ticks_diff is exact.)
C8_LoopTimeTrigger ==
    (/\ call.op = "loop"
     /\ call.pre_buffer # <<>>
     /\ call.pre_elapsed >= flush_interval_ms
     /\ call.pre_elapsed < TICKS_PERIOD \div 2) => call.sent # <<>>

\* C9: every envelope handed to the network carries the configured device id, the
\* cycle of the oldest buffered point as start_cycle, the cycle of the newest as
\* end_cycle, the number of buffered points as total_points, and the buffered
\* points in buffer order as data.
C9_Envelope ==
    call.sent # <<>> =>
        LET env == call.sent[1] IN
        /\ env.device_id = DEVICE_ID
        /\ env.batch_info.start_cycle = FlushInput[1].cycle
        /\ env.batch_info.end_cycle = FlushInput[Len(FlushInput)].cycle
        /\ env.batch_info.total_points = Len(FlushInput)
        /\ env.data = FlushInput

\* C9 witness: an envelope of several points whose first and last cycles differ
C9_Witness ==
    /\ call.sent # <<>>
    /\ Len(call.sent[1].data) >= 2
    /\ call.sent[1].batch_info.start_cycle # call.sent[1].batch_info.end_cycle

\* C10: starting from 0, after any number (>= 1) of next() calls the value is in
\* 1..max_value and never 0; the first call returns 1 and each later call returns
\* the previous value plus one, except that max_value is followed by 1.
C10_CycleCounter ==
    /\ returned = <<>> => value = 0
    /\ returned # <<>> =>
        /\ value \in 1..max_value
        /\ value = returned[Len(returned)]
        /\ returned[1] = 1
        /\ \A i \in 1..(Len(returned) - 1) :
             returned[i + 1] = IF returned[i] = max_value THEN 1 ELSE returned[i] + 1

\* C10 witness: max_value + 1 calls have returned 1, 2, ..., max_value, 1
C10_Witness ==
    /\ max_value >= 2
    /\ Len(returned) = max_value + 1
    /\ returned[max_value] = max_value
    /\ value = 1

----------------------------------------------------------------------------
(* Properties of the FIFO reader and the window manager *)

\* the i-th, 2i-th, ... elements of s for i = step
EveryNth(s, step) == [i \in 1..(Len(s) \div step) |-> s[i * step]]

Channel(pairs, ch) == [i \in 1..Len(pairs) |-> pairs[i][ch]]

\* C11: after every poll the red and IR windows have the same length, and that
\* length is at most the window capacity.
C11_WindowsBounded ==
    pc = "idle" => /\ Len(red_window) = Len(ir_window)
                   /\ Len(ir_window) <= WinCap

\* a poll that appended to windows that were already full
C11_Witness ==
    /\ pc = "idle"
    /\ poll.returned # <<>>
    /\ Len(poll.pre_ir) = WinCap
    /\ Len(ir_window) = WinCap
    /\ ir_window # poll.pre_ir

\* C12: starting from a decimation counter of 0, feeding N valid pairs with
\* factor D appends exactly floor(N / D) pairs, namely the D-th, 2D-th, ...
\* pairs fed.
C12_Decimation ==
    pc = "idle" => /\ retained = EveryNth(fed, Decim)
                   /\ Len(retained) = Len(fed) \div Decim

\* pairs were fed over more than one poll, retained and skipped
C12_Witness ==
    /\ pc = "idle"
    /\ poll.returned # <<>>
    /\ Len(poll.returned) < Len(fed)
    /\ Len(retained) >= 2
    /\ Len(fed) % Decim # 0
    /\ retained[1] # retained[2]

\* C13: red_window[i] and ir_window[i] come from the same record, and the
\* windows hold the most recently retained pairs in arrival order.
C13_WindowsPaired ==
    pc = "idle" =>
        LET k == IF Len(retained) < WinCap THEN Len(retained) ELSE WinCap
            recent == LastN(retained, k)
        IN /\ red_window = Channel(recent, 1)
           /\ ir_window = Channel(recent, 2)

\* pairs have been evicted, and the window holds two different pairs
C13_Witness ==
    /\ pc = "idle"
    /\ Len(retained) > WinCap
    /\ Len(ir_window) >= 2
    /\ ir_window[1] # ir_window[2]
    /\ red_window[1] # red_window[2]

\* C14: every call of the FIFO reader reads at most max_reads 6-byte records.
C14_ReadsBounded == n_records <= max_reads

\* C15: a bus error during a poll makes the reader return no samples and raise
\* nothing, and leaves the windows, the decimation counter and the SpO2
\* smoothing state as they were, also when samples had been read already.
C15_BusErrorDiscards ==
    (pc = "idle" /\ poll.error # "none") =>
        /\ poll.returned = <<>>
        /\ ~poll.raised
        /\ red_window = poll.pre_red
        /\ ir_window = poll.pre_ir
        /\ downsample_counter = poll.pre_counter
        /\ last_spo2 = poll.pre_spo2

\* the error struck after samples had been read, enough of them to
\* have changed the windows
C15_Witness ==
    /\ pc = "idle"
    /\ poll.error = "fifo_data"
    /\ poll.discarded # <<>>
    /\ poll.pre_counter + Len(poll.discarded) >= Decim

\* C16: a record whose two channels decode to zero is never returned, never
\* enters a window and does not advance the decimation counter; a record with
\* exactly one zero channel is kept and counted.
C16_ZeroRecords ==
    [][/\ \A i \in 1..Len(fed') : fed'[i] # <<0, 0>>
       /\ \A i \in 1..Len(samples') : samples'[i] # <<0, 0>>
       /\ \A i \in 1..Len(ir_window') :
            <<red_window'[i], ir_window'[i]>> # <<0, 0>>
       /\ \A raw \in Records : FifoRecord(raw) =>
            LET pair == DecodeRecord(raw)
                mine == IF pc' = "idle" THEN poll'.returned ELSE samples'
            IN IF pair = <<0, 0>>
               THEN /\ mine = CurSamples
                    /\ UNCHANGED <<red_window, ir_window, downsample_counter, fed,
                                   retained>>
               ELSE /\ mine = Append(CurSamples, pair)
                    /\ read_count' = IF pc' = "idle" THEN 0 ELSE CurReadCount + 1]_vars

\* a window holds a pair with exactly one zero channel, after zero records
\* with non-zero bytes were read
C16_Witness ==
    /\ pc = "idle"
    /\ \E i \in 1..Len(ir_window) : red_window[i] = 0 /\ ir_window[i] # 0
    /\ \E i \in 1..Len(ir_window) : red_window[i] # 0 /\ ir_window[i] = 0
    /\ n_records > Len(poll.returned)

----------------------------------------------------------------------------
(* Properties of the heart-rate estimator *)

HrDone == hr_call.calls = 1
HrAvailable == HrDone /\ hr_call.out # <<>>

\* num / den lies in [lo, hi]
RatWithin(q, lo, hi) == q[2] > 0 /\ lo * q[2] <= q[1] /\ q[1] <= hi * q[2]

\* the window is the 1.2 Hz sinusoid over the full window length
IsFullSineWindow ==
    \E base \in Baselines, p \in 0..MaxPhase :
        ir_window = SineWindow(base, p, MAX_SAMPLES)

\* C17: on a window with fewer than 40 samples, whatever its contents,
\* estimate_hr_simple returns unavailable.
C17_ShortWindowUnavailable ==
    (HrDone /\ Len(ir_window) < 40) => hr_call.out = <<>>

\* a 39-sample window that one more sample would get an estimate for
C17_Witness ==
    /\ HrDone
    /\ Len(ir_window) = 39
    /\ hr_call.out = <<>>
    /\ EstimateHr(ir_window \o <<ir_window[1]>>) # <<>>

C19_SinusoidWithin5 ==
    (HrDone /\ IsFullSineWindow) =>
        /\ hr_call.out # <<>>
        /\ RatWithin(hr_call.out, 67, 77)

----------------------------------------------------------------------------
(* Properties of the SpO2 estimator *)

RatEq(p, q) == p[1] * q[2] = q[1] * p[2]

Spo2Passed == spo2_call.calls > 0 /\ spo2_call.gate = "pass"

\* 110 - 25 * R as a rational over R's denominator, clamped to [70, 100]
C20_Expected(R) ==
    IF 110 * R[2] - 25 * R[1] < 70 * R[2] THEN <<70, 1>>
    ELSE IF 110 * R[2] - 25 * R[1] > 100 * R[2] THEN <<100, 1>>
    ELSE <<110 * R[2] - 25 * R[1], R[2]>>

\* C20: when all gates pass with ratio R, the raw value is 110 - 25 R clamped
\* to [70, 100]; the first successful call returns the raw value, every later
\* successful call returns 0.7 * previous + 0.3 * raw, and the returned value
\* is stored as the new state.
C20_RawAndSmoothing ==
    Spo2Passed =>
        /\ RatEq(spo2_call.raw, C20_Expected(spo2_call.R))
        /\ IF spo2_call.pre_last = <<>>
           THEN spo2_call.out = spo2_call.raw
           ELSE 10 * spo2_call.out[1] * spo2_call.pre_last[2] * spo2_call.raw[2]
                = spo2_call.out[2]
                  * (7 * spo2_call.pre_last[1] * spo2_call.raw[2]
                     + 3 * spo2_call.raw[1] * spo2_call.pre_last[2])
        /\ last_spo2 = spo2_call.out

\* a later successful call whose raw value differs from the previous estimate
\* and was clamped from below
C20_Witness ==
    /\ Spo2Passed
    /\ spo2_call.pre_last # <<>>
    /\ spo2_call.raw = <<70, 1>>
    /\ spo2_call.pre_last # spo2_call.raw
    /\ spo2_call.out # spo2_call.raw

----------------------------------------------------------------------------
(* Properties of the device loop *)

\* the step is a call of estimate_spo2_simple
IsSpo2Call == spo2_call'.calls # spo2_call.calls

\* C21: when a gate fails estimate_spo2_simple returns unavailable and leaves
\* the smoothing state unchanged, and no step other than a successful
\* estimate_spo2_simple call (a poll, a heart-rate estimate, the uplink)
\* changes the smoothing state.
C21_SmoothingStateFrame ==
    [][/\ (IsSpo2Call /\ spo2_call'.gate # "pass") =>
            (spo2_call'.out = <<>> /\ last_spo2' = last_spo2)
       /\ (last_spo2' # last_spo2) =>
            (IsSpo2Call /\ spo2_call'.gate = "pass"
             /\ last_spo2' = spo2_call'.out)]_vars

\* an estimate was stored, the next iteration polled, estimated the heart
\* rate, failed a gate and sent its point, and the estimate is still stored
C21_Witness ==
    /\ pc = "idle"
    /\ spo2_call.calls = 2
    /\ spo2_call.gate = "low_dc"
    /\ spo2_call.out = <<>>
    /\ last_spo2 # <<>>
    /\ Len(history) = 2
    /\ poll.error # "none"

----------------------------------------------------------------------------
(* Properties of the sensor's construction *)

ConfigRegisters == {ConfigWrites[i][1] : i \in 1..Len(ConfigWrites)}

\* C22: when the part-identifier register does not read 0x15, or its read
\* fails, construction aborts before any configuration or FIFO-pointer
\* register is written, and no sensor object, hence no poll and no estimate,
\* is ever produced.
C22_PartIdMismatchAborts ==
    (boot.state # "start" /\ boot.part_id # <<21>>) =>
        /\ boot.state = "aborted"
        /\ \A i \in 1..Len(boot.writes) : boot.writes[i][1] \notin ConfigRegisters
        /\ poll = InitPoll
        /\ hr_call.calls = 0
        /\ spo2_call.calls = 0
        /\ history = <<>>

\* construction was attempted on a device answering another part id
C22_Witness ==
    /\ boot.state = "aborted"
    /\ boot.part_id = <<17>>

----------------------------------------------------------------------------
(* Properties of the envelopes the device loop produces *)

\* C23: every envelope the device produces is accepted by the collector's
\* batch validator: it has device_id, batch_info with start_cycle, end_cycle
\* and total_points, a non-empty data list, and each point carries cycle,
\* timestamp, the PPG object with ir, red, heartrate and spo2 and the
\* acceleration object with ax, ay and az.
C23_EnvelopeAccepted ==
    call.sent # <<>> =>
        LET env == call.sent[1] IN
        /\ ValidateBatchRequest(env) = "ok"
        /\ DOMAIN env = {"device_id", "batch_info", "data"}
        /\ DOMAIN env.batch_info = {"start_cycle", "end_cycle", "total_points"}
        /\ env.data # <<>>
        /\ \A i \in 1..Len(env.data) :
            /\ {"cycle", "timestamp", "vital_signs"} \subseteq DOMAIN env.data[i]
            /\ DOMAIN env.data[i].vital_signs.ppg
                 = {"ir", "red", "heartrate", "spo2"}
            /\ DOMAIN env.data[i].vital_signs.accel = {"ax", "ay", "az"}

\* an envelope of two points that carry sensor readings and an SpO2 estimate
C23_Witness ==
    /\ call.sent # <<>>
    /\ Len(call.sent[1].data) = 2
    /\ call.sent[1].data[2].vital_signs.ppg.ir # 0
    /\ call.sent[1].data[2].vital_signs.ppg.spo2 # <<0, 1>>

----------------------------------------------------------------------------
(* Properties of the uplink under failing and recovering sends *)

\* no send has returned a response so far: every attempt raised
AllSendsFailed == cleared_at = 0

\* C24: while every send attempt fails, after k add_point calls starting from
\* an empty buffer the buffer equals the last min(k, max_buffer_points) points
\* added, in order: a point is lost only by the oldest-first eviction, and
\* only once more than max_buffer_points points are pending.
C24_FailingSendsKeepNewest ==
    AllSendsFailed =>
        LET k == Len(history)
            kept == IF k < max_buffer_points THEN k ELSE max_buffer_points
        IN /\ buffer = SubSeq(history, k - kept + 1, k)
           /\ (k <= max_buffer_points => buffer = history)

\* every add_point from the batch size on made an attempt that failed, and
\* points beyond the capacity have been added
C24_Witness ==
    /\ AllSendsFailed
    /\ call.op = "add_point"
    /\ SendFailed
    /\ batch_size = 1
    /\ max_buffer_points >= 2
    /\ Len(history) > max_buffer_points + 1
    /\ Len(buffer) = max_buffer_points

\* an add_point that retries: a send has failed since the buffer was last
\* cleared, and the buffer is at or above batch_size
IsRetry ==
    call.op = "add_point" /\ call.pre_failed /\ Len(call.pre_buffer) >= batch_size

\* C25 as stated: after a send attempt has failed with the buffer at or above
\* batch_size, every subsequent add_point makes exactly one send attempt
\* carrying all retained points plus the new one.
C25_Original ==
    IsRetry =>
        /\ Len(call.sent) = 1
        /\ call.sent[1].data = Append(call.pre_buffer, call.appended[1])

\* C25 amended: after a send attempt has failed with the buffer at or above
\* batch_size, every subsequent add_point makes exactly one send attempt
\* carrying the newest max_buffer_points of the retained points and the new
\* one, and the first attempt that succeeds delivers them in a single
\* envelope and empties the buffer.
C25_RetryOnEveryAdd ==
    IsRetry =>
        /\ Len(call.sent) = 1
        /\ call.sent[1].data = FlushInput
        /\ call.sent[1].batch_info.total_points = Len(FlushInput)
        /\ (call.outcome = "ok" => buffer = <<>> /\ ~flush_failed)
        /\ (SendFailed => buffer = FlushInput /\ flush_failed)

\* a retry on a full buffer that succeeded with several points
C25_Witness ==
    /\ IsRetry
    /\ Len(call.pre_buffer) = max_buffer_points
    /\ call.outcome = "ok"
    /\ Len(call.sent[1].data) >= 2
    /\ buffer = <<>>

\* C26: no data point is contained in more than one envelope that was
\* answered, and across successive such envelopes the points appear in the
\* order they were added: an envelope that is answered carries the points that
\* follow, in the order of adding, the last point of the previous one.
C26_DeliveredOnceInOrder ==
    [][cleared_at' # cleared_at =>
        LET d == call'.sent[1].data IN
        /\ cleared_at' = Len(history')
        /\ Len(d) <= cleared_at' - cleared_at
        /\ d = SubSeq(history', cleared_at' - Len(d) + 1, cleared_at')]_vars

\* an answered envelope of several points that follows an earlier answered
\* one (no point was ever evicted, yet the envelope lacks the oldest points)
C26_Witness ==
    /\ call.status # <<>>
    /\ cleared_at = Len(history)
    /\ Len(history) <= max_buffer_points
    /\ Len(call.sent[1].data) >= 2
    /\ Len(call.sent[1].data) < Len(history)

\* C27: no network send is attempted with an empty buffer: flush_if_due and
\* the internal flush return without calling the network when no point is
\* buffered, so every envelope has total_points >= 1.
C27_NoEmptySend ==
    /\ call.sent # <<>> =>
        /\ call.sent[1].data # <<>>
        /\ call.sent[1].batch_info.total_points >= 1
    /\ (call.op = "flush_if_due" /\ call.pre_buffer = <<>>) =>
        (call.sent = <<>> /\ buffer = <<>> /\ last_send_ms = call.pre_last_send_ms)

\* flush_if_due found the interval elapsed and the buffer empty
C27_Witness ==
    /\ call.op = "flush_if_due"
    /\ call.pre_buffer = <<>>
    /\ call.pre_elapsed >= flush_interval_ms
    /\ call.sent = <<>>

-----------------------------------------------------------------------------
(* Cycle ids in the streaming loop *)

\* the id that follows c: c + 1, or 1 after max_value
FollowsInCycle(c, d) == d = (IF c >= max_value THEN 1 ELSE c + 1)

\* the ids of a batch rise through the batch: no wrap inside it
NoWrapInside(data) ==
    \A i \in 1..(Len(data) - 1) : data[i + 1].cycle > data[i].cycle

\* C28: in the streaming loop every data point carries the id returned by one
\* next() call of its own, the counter advances only when a point is
\* assembled, the buffer holds consecutive cycle ids in increasing order
\* (wrapping from max_value to 1), and every envelope without a wrap inside
\* the batch has total_points = end_cycle - start_cycle + 1.
C28_CycleIdsConsecutive ==
    /\ Len(returned) = Len(history)
    /\ \A i \in 1..Len(history) : history[i].cycle = returned[i]
    /\ value = (IF returned = <<>> THEN 0 ELSE returned[Len(returned)])
    /\ \A i \in 1..(Len(buffer) - 1) :
           FollowsInCycle(buffer[i].cycle, buffer[i + 1].cycle)
    /\ \A i \in 1..Len(call.sent) :
           LET env == call.sent[i]
           IN NoWrapInside(env.data) =>
                 env.batch_info.total_points
                   = env.batch_info.end_cycle - env.batch_info.start_cycle + 1

\* an iteration that assembled a point and sent several, none of them the
\* first point assembled, without a wrap inside the batch
C28_Witness ==
    /\ call.op = "loop"
    /\ call.appended # <<>>
    /\ call.sent # <<>>
    /\ Len(call.sent[1].data) >= 2
    /\ NoWrapInside(call.sent[1].data)
    /\ call.sent[1].batch_info.start_cycle > 1

-----------------------------------------------------------------------------
(* Decimation across polls and the decoded channel values *)

\* C29: between polls the decimation counter is in 0..D-1, and which samples
\* are retained depends only on the concatenated sequence of valid samples
\* fed, not on how the polls split it: the j-th sample fed is retained exactly
\* when j is a multiple of D.
C29_DecimationAcrossPolls ==
    pc = "idle" =>
        /\ downsample_counter \in 0..(Decim - 1)
        /\ downsample_counter = Len(fed) % Decim
        /\ Len(retained) = Len(fed) \div Decim
        /\ \A j \in 1..Len(fed) :
               (j % Decim = 0) => retained[j \div Decim] = fed[j]

\* a poll that returned a single sample, retained because the poll before it
\* left the counter at D-1
C29_Witness ==
    /\ pc = "idle"
    /\ Len(poll.returned) = 1
    /\ poll.pre_counter = Decim - 1
    /\ downsample_counter = 0
    /\ Len(retained) >= 2
    /\ retained[Len(retained)] = poll.returned[1]

\* the big-endian word of three FIFO bytes
Word24(b0, b1, b2) == b0 * 65536 + b1 * 256 + b2

\* pair is what some record the sensor presents holds in its low 18 bits
IsDecoded(pair) ==
    \E raw \in Records :
        /\ pair[1] = Word24(raw[1], raw[2], raw[3]) % 262144
        /\ pair[2] = Word24(raw[4], raw[5], raw[6]) % 262144

\* C30: each decoded channel value is the 24-bit big-endian word of its three
\* FIFO bytes modulo 2^18, so every value read, fed or kept in a window is in
\* 0..262143.
C30_DecodedValues ==
    /\ \A i \in 1..Len(samples) : IsDecoded(samples[i])
    /\ \A i \in 1..Len(fed) : IsDecoded(fed[i])
    /\ \A i \in 1..Len(red_window) : red_window[i] \in 0..262143
    /\ \A i \in 1..Len(ir_window) :
           /\ ir_window[i] \in 0..262143
           /\ IsDecoded(<<red_window[i], ir_window[i]>>)

\* a window holds a value whose FIFO word had bits above the 18th set
C30_Witness ==
    /\ pc = "idle"
    /\ \E i \in 1..Len(red_window) : \E raw \in Records :
           /\ Word24(raw[1], raw[2], raw[3]) > 262143
           /\ red_window[i] = Word24(raw[1], raw[2], raw[3]) - 262144
           /\ red_window[i] > 0

-----------------------------------------------------------------------------
(* get_latest_pair *)

\* C31: get_latest_pair returns (None, None) exactly when no pair has yet been
\* retained by decimation; otherwise it returns the most recently retained
\* pair, which is what the previous call returned when the poll retained
\* nothing new or failed on the bus.
C31_LatestPair ==
    [][pc' = "idle" =>
        /\ (poll'.latest = <<>>) <=> (retained' = <<>>)
        /\ retained' # <<>> => poll'.latest = retained'[Len(retained')]
        /\ (poll'.error # "none"
              \/ poll'.pre_counter + Len(poll'.returned) < Decim)
              => poll'.latest = poll.latest]_vars

\* a poll that failed on the bus after pairs had been read returned the pair
\* retained before it, which is not the oldest pair in the window
C31_Witness ==
    /\ pc = "idle"
    /\ poll.error # "none"
    /\ poll.discarded # <<>>
    /\ Len(ir_window) >= 2
    /\ poll.latest = retained[Len(retained)]
    /\ poll.latest # <<red_window[1], ir_window[1]>>

-----------------------------------------------------------------------------
(* The channel the heart rate is estimated from.  Channel A is the channel   *)
(* decoded from the first three bytes of a record, kept in red_window, and   *)
(* channel B the one decoded from the last three, kept in ir_window.         *)

-----------------------------------------------------------------------------
(* Properties of the peak scan.  Positions are 1-based: index i of the code  *)
(* is position i + 1.                                                        *)

\* the window the estimator works on: the last MAX_SAMPLES samples
Recent(w) == IF Len(w) > MAX_SAMPLES THEN LastN(w, MAX_SAMPLES) ELSE w

\* Len(w) times the mean-removed signal
MeanRemoved(w) == [i \in 1..Len(w) |-> Len(w) * w[i] - SeqSum(w)]

\* 5 times the 5-point moving average, the first value repeated in front
\* (for more than 5 samples)
Smoothed5(ac) ==
    [i \in 1..Len(ac) |->
        IF i <= 4 THEN ac[1] + ac[2] + ac[3] + ac[4] + ac[5]
        ELSE ac[i - 4] + ac[i - 3] + ac[i - 2] + ac[i - 1] + ac[i]]

\* the smoothed, mean-removed signal of the window of the last call (scaled)
SmoothedOfCall == Smoothed5(MeanRemoved(Recent(hr_call.ir)))

\* the estimator of the last call got as far as smoothing
Scanned == HrDone /\ Len(hr_call.ir) >= 40

\* position i passes the peak test of the claim
IsCandidate(s, i) ==
    /\ i \in 2..(Len(s) - 1)
    /\ 10 * s[i] > 3 * SeqMax(s)
    /\ s[i] > s[i - 1]
    /\ s[i] > s[i + 1]

\* P is the list of positions a scan in increasing order accepts when a
\* candidate is accepted unless it is less than 3 after the last accepted one
IsGreedyScan(P, s) ==
    /\ \A k \in 1..Len(P) : IsCandidate(s, P[k])
    /\ \A k \in 1..(Len(P) - 1) : P[k + 1] - P[k] >= 3
    /\ \A c \in 2..(Len(s) - 1) :
           (IsCandidate(s, c) /\ \A k \in 1..Len(P) : P[k] # c) =>
               \E k \in 1..Len(P) :
                   /\ P[k] < c
                   /\ c - P[k] < 3
                   /\ (k = Len(P) \/ P[k + 1] > c)

\* C33: the peaks accepted by the HR estimator are exactly the indices i with
\* 1 <= i <= len - 2, scanned in increasing order, where smoothed[i] is above
\* 0.3 * max(smoothed), strictly greater than both neighbours, and at least 3
\* samples after the previously accepted peak; with fewer than 2 accepted
\* peaks the result is unavailable.
C33_PeaksAccepted ==
    Scanned =>
        /\ IsGreedyScan(hr_call.peaks, SmoothedOfCall)
        /\ Len(hr_call.peaks) < 2 => hr_call.out = <<>>

\* a scan that accepted several peaks and passed over a local maximum less
\* than 3 samples after an accepted one
C33_Witness ==
    /\ Scanned
    /\ Len(hr_call.peaks) >= 2
    /\ \E c \in 2..(Len(hr_call.ir) - 1) :
           /\ IsCandidate(SmoothedOfCall, c)
           /\ \A k \in 1..Len(hr_call.peaks) : hr_call.peaks[k] # c

\* C34: a window of sufficient length whose samples are all equal yields
\* unavailable, and estimate_hr_simple returns unavailable whenever the maximum
\* of the smoothed, mean-removed signal is at most 0.
C34_FlatUnavailable ==
    Scanned =>
        /\ (\A i \in 1..Len(hr_call.ir) : hr_call.ir[i] = hr_call.ir[1])
              => hr_call.out = <<>>
        /\ SeqMax(SmoothedOfCall) <= 0 => hr_call.out = <<>>

\* a window that is not flat, whose smoothed signal has local maxima, and
\* whose smoothed maximum is 0
C34_Witness ==
    /\ Scanned
    /\ hr_call.out = <<>>
    /\ SeqMax(SmoothedOfCall) <= 0
    /\ \E i \in 1..Len(hr_call.ir) : hr_call.ir[i] # hr_call.ir[1]
    /\ \E i \in 2..(Len(hr_call.ir) - 1) :
           /\ SmoothedOfCall[i] > SmoothedOfCall[i - 1]
           /\ SmoothedOfCall[i] > SmoothedOfCall[i + 1]

\* C35: when k >= 2 peaks are accepted at positions p_1 < ... < p_k, the heart
\* rate returned is 60 * SAMPLE_RATE_HZ * (k - 1) / (p_k - p_1): the positions
\* are strictly increasing, so no interval is skipped.
C35_RateFromFirstAndLast ==
    (Scanned /\ Len(hr_call.peaks) >= 2) =>
        LET P == hr_call.peaks
            k == Len(P)
        IN /\ \A i \in 1..(k - 1) : P[i] < P[i + 1]
           /\ hr_call.out # <<>>
           /\ RatEq(hr_call.out, <<60 * SAMPLE_RATE_HZ * (k - 1), P[k] - P[1]>>)

\* three or more peaks at unequal distances
C35_Witness ==
    /\ Scanned
    /\ Len(hr_call.peaks) >= 3
    /\ hr_call.out # <<>>
    /\ \E i \in 2..(Len(hr_call.peaks) - 1) :
           hr_call.peaks[i + 1] - hr_call.peaks[i]
             # hr_call.peaks[2] - hr_call.peaks[1]

-----------------------------------------------------------------------------
(* The gates of the SpO2 estimator *)

\* the most recent min(n, 80) samples of w, n the shorter window's length
RecentOf(w, n) == LastN(w, IF n < 80 THEN n ELSE 80)

\* the AC/DC ratio of d is below 0.001: peak-to-peak < 0.001 * mean
BelowFloor(d) == 1000 * (SeqMax(d) - SeqMin(d)) * Len(d) < SeqSum(d)

\* the conditions of the claim on the windows A and B
Spo2Conditions(A, B) ==
    LET n == IF Len(A) < Len(B) THEN Len(A) ELSE Len(B)
        a == RecentOf(A, n)
        b == RecentOf(B, n)
        acA == SeqMax(a) - SeqMin(a)
        acB == SeqMax(b) - SeqMin(b)
    IN /\ n >= 40
       /\ SeqSum(a) >= 5000 * Len(a)
       /\ SeqSum(b) >= 5000 * Len(b)
       /\ acA > 0
       /\ acB > 0
       /\ ~(BelowFloor(a) /\ BelowFloor(b))
       /\ 5 * acA * SeqSum(b) >= acB * SeqSum(a)
       /\ acA * SeqSum(b) <= 3 * acB * SeqSum(a)

\* C36: estimate_spo2_simple returns a value if and only if, for the most
\* recent min(n, 80) samples, n = min(len A, len B) >= 40, both channel means
\* are >= 5000, both peak-to-peak amplitudes are > 0, not both AC/DC ratios are
\* below 0.001, and 0.2 <= R = ratioA / ratioB <= 3.0.
C36_ValueIffGatesPass ==
    [][IsSpo2Call =>
         ((spo2_call'.out # <<>>) <=> Spo2Conditions(red_window, ir_window))]_vars

\* a value was returned for windows with one ratio below the floor and R
\* exactly 0.2
C36_Witness ==
    /\ spo2_call.calls > 0
    /\ spo2_call.out # <<>>
    /\ Len(red_window) >= 40
    /\ spo2_call.R = Spo2Ratio(red_window, ir_window)
    /\ BelowFloor(red_window)
    /\ ~BelowFloor(ir_window)
    /\ 5 * spo2_call.R[1] = spo2_call.R[2]

-----------------------------------------------------------------------------
(* The range and the lifetime of the SpO2 smoothing state *)

\* the rational v lies in [70, 100]
InSpo2Range(v) == 70 * v[2] <= v[1] /\ v[1] <= 100 * v[2]

\* C37: in every reachable state the stored SpO2 smoothing state is absent or
\* within [70, 100], and every value estimate_spo2_simple returns is within
\* [70, 100], for any sequence of polls and estimates.
C37_Spo2Range ==
    /\ last_spo2 # <<>> => InSpo2Range(last_spo2)
    /\ spo2_call.out # <<>> => InSpo2Range(spo2_call.out)

\* after polls, a second estimate whose raw value was clamped to 70 was
\* smoothed with an earlier estimate above 70
C37_Witness ==
    /\ spo2_call.calls = 2
    /\ spo2_call.raw = <<70, 1>>
    /\ spo2_call.pre_last # <<>>
    /\ RatLess(<<70, 1>>, spo2_call.out)
    /\ last_spo2 = spo2_call.out
    /\ pc = "idle"

\* C38: once a SpO2 estimate has been produced the smoothing state is never
\* absent again: after any number of unavailable results the next estimate is
\* 0.7 * (the last value returned before the gap) + 0.3 * raw, not raw.
C38_SmoothingSurvivesGap ==
    /\ spo2_call.value # <<>> => last_spo2 # <<>>
    /\ (spo2_call.out # <<>> /\ spo2_call.pre_value # <<>>) =>
          10 * spo2_call.out[1] * spo2_call.pre_value[2] * spo2_call.raw[2]
            = spo2_call.out[2]
              * (7 * spo2_call.pre_value[1] * spo2_call.raw[2]
                 + 3 * spo2_call.raw[1] * spo2_call.pre_value[2])

\* an estimate, then an unavailable result, then an estimate that differs
\* from its raw value
C38_Witness ==
    /\ spo2_call.out # <<>>
    /\ spo2_call.pre_value # <<>>
    /\ spo2_call.pre_unavail >= 1
    /\ spo2_call.out # spo2_call.raw

-----------------------------------------------------------------------------
(* The estimates in the data point *)

\* the field carries the estimate: 0 exactly when there is none, else the
\* estimate, which is not 0
CarriesEstimate(field, estimate) ==
    /\ (field[1] = 0) <=> (estimate = <<>>)
    /\ estimate # <<>> => (field = estimate /\ estimate[1] # 0)

\* C39: in every data point assembled by the device loop, the heartrate field
\* and the spo2 field are 0 exactly when the estimator returned unavailable in
\* that iteration and the estimate itself otherwise; estimates are never 0, so
\* 0 always means unavailable.
C39_ZeroMeansUnavailable ==
    (pc = "idle" /\ call.op = "loop" /\ call.appended # <<>>) =>
        LET ppg == call.appended[1].vital_signs.ppg
        IN /\ CarriesEstimate(ppg.heartrate, hr_call.out)
           /\ CarriesEstimate(ppg.spo2, spo2_call.out)

\* a point with a heart rate and no SpO2, after a point with a SpO2
C39_Witness ==
    /\ pc = "idle"
    /\ call.op = "loop"
    /\ call.appended # <<>>
    /\ hr_call.out # <<>>
    /\ spo2_call.out = <<>>
    /\ call.appended[1].vital_signs.ppg.heartrate = hr_call.out
    /\ Len(history) >= 2
    /\ history[Len(history) - 1].vital_signs.ppg.spo2[1] # 0

-----------------------------------------------------------------------------
(* The collector's store under concurrent request threads *)

RECURSIVE Flatten(_)
Flatten(batches) ==
    IF batches = <<>> THEN <<>> ELSE Head(batches) \o Flatten(Tail(batches))

\* the newest n entries of s, all of s when it has fewer
Newest(s, n) == IF Len(s) <= n THEN s ELSE LastN(s, n)

\* what the store holds after the add_batch calls the reader found completed
StoredAfter(batches) == Newest(Flatten(batches), store.max_size)

\* C40 as stated: a reader observes either none or all of a batch's points
\* (here: a get_recent_data call that asks for as many points as are stored).
C40_Original ==
    (store.obs.kind = "recent" /\ ~store.obs.none
     /\ store.obs.count = store.obs.size) =>
        \A b \in 1..Len(store.obs.committed) :
            LET points == {store.obs.committed[b][k] :
                              k \in 1..Len(store.obs.committed[b])}
                seen == {p \in points :
                            \E j \in 1..Len(store.obs.items) : store.obs.items[j] = p}
            IN seen = {} \/ seen = points

\* C40 amended: add_batch is atomic with respect to get_recent_data and
\* get_buffer_info: a reader finds the store as a whole number of completed
\* add_batch calls leave it, namely the newest max_size points of their
\* batches in order, never more than max_size, with total_received the sum of
\* the sizes of the completed calls.
C40_AtomicAddBatch ==
    /\ Len(store.data_buffer) <= store.max_size
    /\ store.obs.kind = "recent" =>
          /\ store.obs.size = Len(StoredAfter(store.obs.committed))
          /\ store.obs.none <=> store.obs.size < store.obs.count
          /\ ~store.obs.none =>
                store.obs.items
                  = Newest(StoredAfter(store.obs.committed), store.obs.count)
    /\ store.obs.kind = "info" =>
          /\ store.obs.size = Len(StoredAfter(store.obs.committed))
          /\ store.obs.size <= store.max_size
          /\ store.obs.total_received = Len(Flatten(store.obs.committed))
          /\ store.obs.total_batches = Len(store.obs.committed)

\* a reader whose call started while another thread held the lock read the
\* whole of the batch of several points that was added last, after an earlier
\* batch had been evicted in part
C40_Witness ==
    /\ store.obs.kind = "recent"
    /\ store.obs.waited
    /\ ~store.obs.none
    /\ Len(store.obs.committed) >= 2
    /\ Len(store.obs.items) >= 2
    /\ store.obs.items
         = store.obs.committed[Len(store.obs.committed)]
    /\ Len(Flatten(store.obs.committed)) > store.max_size

====
